---- MODULE Spec2Model ----
(***************************************************************************)
(* State-machine model of GoogleScraper's SERP parser                      *)
(* (src/GoogleScraper/parsing.py) and of the part of the persistence layer *)
(* that consumes a parser (src/GoogleScraper/database.py).                 *)
(*                                                                         *)
(* Encoding of Python values                                               *)
(*   - a str is a sequence of tokens (each token a TLA+ string standing    *)
(*     for a run of characters); '' is <<>>;                               *)
(*   - None and False are two reserved one-token sequences, so that every  *)
(*     value a field may hold is a sequence and can be compared;           *)
(*   - a dict with string keys is a function over its keys; a list is a    *)
(*     sequence.                                                           *)
(* What lxml and cssselect return for a query on the document is an input: *)
(* the model draws it from bounded sets when the code asks for it, and     *)
(* remembers it for as long as a later query can observe the same nodes.   *)
(***************************************************************************)
EXTENDS Integers, Sequences, FiniteSets, TLC

\* ------------------------------------------------------------------ bounds
\* Elements the selectors of the parser match in the documents one parser
\* object is given, in all: candidate nodes, page-level elements, text marks.
MaxNodes == 2
\* Calls of parse() on one parser object (the one __init__ makes included).
MaxCalls == 2
\* Elements of the document of each of two concurrent calls.
MaxConcurrentNodes == 1
\* Selectors in a list given to first_match.
MaxSelectors == 3

\* ------------------------------------------------------- Python values
None == <<"<None>">>
False == <<"<False>">>
\* The attribute does not exist yet (no_results_text before the first _parse).
Unset == <<"<unset>">>

\* bool(v) of a str, None or False.
Truthy(v) == v # None /\ v # False /\ v # <<>>

\* str(v), as database.py applies it to first_match's result.
str(v) == IF v = False THEN <<"False">> ELSE IF v = None THEN <<"None">> ELSE v

Range(s) == {s[i] : i \in DOMAIN s}

\* needle in hay, for two str.
Contains(hay, needle) ==
  \E i \in 0..(Len(hay) - Len(needle)) :
     \A j \in 1..Len(needle) : hay[i + j] = needle[j]

\* s.replace(t, '') for a one-token t.
\* A replace that removes nothing.
Remove_Nothing(s, t) == s

RECURSIVE Remove(_, _)
Remove(s, t) ==
  IF s = <<>> THEN <<>>
  ELSE IF Head(s) = t THEN Remove(Tail(s), t)
  ELSE <<Head(s)>> \o Remove(Tail(s), t)

Whitespace == {" "}

\* str.strip(s)
RECURSIVE lstrip(_)
lstrip(s) == IF s # <<>> /\ Head(s) \in Whitespace THEN lstrip(Tail(s)) ELSE s

RECURSIVE rstrip(_)
rstrip(s) ==
  IF s # <<>> /\ s[Len(s)] \in Whitespace THEN rstrip(SubSeq(s, 1, Len(s) - 1)) ELSE s

strip(s) == rstrip(lstrip(s))

\* s.split()[0] for a stripped s: the tokens before the first whitespace.
\* On '' split() is [] and [0] raises IndexError, which both callers swallow,
\* leaving the value as it was: ''.
RECURSIVE FirstWord(_)
FirstWord(s) ==
  IF s = <<>> \/ Head(s) \in Whitespace THEN <<>>
  ELSE <<Head(s)>> \o FirstWord(Tail(s))

\* urllib.parse.unquote on one token: a percent escape becomes its character.
unquote_token(t) ==
  CASE t = "%3A" -> ":"
    [] t = "%2F" -> "/"
    [] t = "%26sa=U%26ei=" -> "&sa=U&ei="
    [] OTHER -> t

unquote(s) == [i \in DOMAIN s |-> unquote_token(s[i])]

\* re.search(prefix (?P<url>.*?) suffix, s) for one-token prefix and suffix:
\* the leftmost prefix that a suffix follows, and the lazy group up to the
\* first suffix after it. <<FALSE, ''>> when there is no match.
re_search(prefix, suffix, s) ==
  LET starts == {i \in DOMAIN s : s[i] = prefix /\ \E j \in (i + 1)..Len(s) : s[j] = suffix}
  IN IF starts = {} THEN [matched |-> FALSE, url |-> <<>>]
     ELSE LET i == CHOOSE x \in starts : \A y \in starts : x <= y
              j == CHOOSE x \in (i + 1)..Len(s) :
                      s[x] = suffix /\ \A y \in (i + 1)..(x - 1) : s[y] # suffix
          IN [matched |-> TRUE, url |-> SubSeq(s, i + 1, j - 1)]

\* Tokens that begin with the characters 'http'.
HttpTokens == {"http://", "https://"}

\* Tokens that begin with '/', '?' or '#': they end a netloc.
PathTokens == {"/url?q=", "/", "/search", "?"}

\* The tokens of s before its first path token.
RECURSIVE UntilPath(_)
UntilPath(s) ==
  IF s = <<>> \/ Head(s) \in PathTokens THEN <<>>
  ELSE <<Head(s)>> \o UntilPath(Tail(s))

\* urlparse(s).netloc: what follows the scheme's '//' up to the path.
netloc(s) == IF s # <<>> /\ Head(s) \in HttpTokens THEN UntilPath(Tail(s)) ELSE <<>>

\* The dict a *_search_selectors attribute holds: its items in source order.
Dict(items) == [type |-> "dict", items |-> items]

\* ------------------------------------------------------------- the classes
\* The ten engine parsers of parsing.py, and CustomParser: a subclass written
\* the way lines 359-382 of parsing.py invite ("add your own selectors in a
\* new class"), whose *_search_selectors attributes hold the values _parse's
\* schema check has to tell apart: an empty dict, a non-empty list, an empty list.
Engines ==
  {"GoogleParser", "BaiduParser", "YandexParser", "BingParser", "YahooParser",
   "DuckduckgoParser", "AskParser", "BlekkoParser", "YouTubeParser",
   "YouTubeSponsoredParser"}

Classes == Engines \cup {"CustomParser"}

search_types(c) ==
  CASE c \in {"GoogleParser", "BaiduParser", "YandexParser", "BingParser", "YahooParser"}
         -> <<"normal", "image">>
    [] c = "CustomParser" -> <<"normal", "image", "video">>
    [] OTHER -> <<"normal">>

effective_query_selector(c) ==
  CASE c = "GoogleParser" -> <<"#topstuff .med > b::text">>
    [] c = "YandexParser" -> <<".misspell__message .misspell__link">>
    [] c = "BingParser" -> <<"#sp_requery a > strong">>
    [] c = "AskParser" -> <<"#spell-check-result > a">>
    [] c = "CustomParser" -> <<>>
    [] OTHER -> <<"">>

no_results_selector(c) ==
  CASE c = "YandexParser" -> <<".message .misspell__message::text">>
    [] c = "BingParser" -> <<"#b_results > .b_ans::text">>
    [] OTHER -> <<>>

num_results_search_selectors(c) ==
  CASE c = "GoogleParser" -> <<"#resultStats">>
    [] c = "BaiduParser" -> <<"#container .nums">>
    [] c = "YandexParser" -> <<".serp-adv .serp-item__wrap > strong">>
    [] c = "BingParser" -> <<".sb_count">>
    [] c = "YahooParser" -> <<"#pg > span:last-child">>
    [] OTHER -> <<>>

page_number_selectors(c) ==
  CASE c = "GoogleParser" -> <<"#navcnt td.cur::text">>
    [] c = "BaiduParser" -> <<".fk_cur + .pc::text">>
    [] c = "YandexParser" -> <<".pager__group .button_checked_yes span::text">>
    [] c = "BingParser" -> <<".sb_pagS::text">>
    [] c = "YahooParser" -> <<"#pg > strong::text">>
    [] c = "DuckduckgoParser" -> <<"">>
    [] c = "AskParser" -> <<".pgcsel .pg::text">>
    [] OTHER -> <<>>

\* ------------------------------------------------- the selector schemas
\* GoogleParser.normal_search_selectors (dict order = source order)
GoogleParser_normal_search_selectors ==
  Dict(<<
    [result_type |-> "organic", selector_class |-> <<
      [selector_specific |-> "0", selectors |->
         [container |-> "#center_col",
          result_container |-> "div.g ",
          link |-> "h3.r > a:first-child::attr(href)",
          snippet |-> "div.s span.st::text",
          title |-> "h3.r > a:first-child::text",
          visible_link |-> "cite::text"]] >>],
    [result_type |-> "ads_top", selector_class |-> <<
      [selector_specific |-> "0", selectors |->
         [container |-> "#_Ltg",
          result_container |-> ".ads-ad",
          title |-> "h3 > a::text",
          link |-> "h3 > a::attr(href)",
          visible_link |-> ".ads-visurl > cite",
          content |-> ".ads-creative"]],
      [selector_specific |-> "1", selectors |->
         [container |-> "#tads",
          result_container |-> ".ads-ad",
          title |-> "._uWj > h3",
          link |-> "a[id$=\"s0p\"]::attr(href)",
          visible_link |-> ".ads-visurl > cite",
          content |-> ".ads-creative"]] >>],
    [result_type |-> "ads_bottom", selector_class |-> <<
      [selector_specific |-> "0", selectors |->
         [container |-> "#_Ktg",
          result_container |-> ".ads-ad",
          title |-> "h3 > a::text",
          link |-> "h3 > a::attr(href)",
          visible_link |-> ".ads-visurl > cite",
          content |-> ".ads-creative"]],
      [selector_specific |-> "1", selectors |->
         [container |-> "#tadsb",
          result_container |-> ".ads-ad",
          title |-> "._uWj > h3",
          link |-> "a[id$=\"s3p\"]::attr(href)",
          visible_link |-> ".ads-visurl > cite",
          content |-> ".ads-creative"]] >>],
    [result_type |-> "pla_main", selector_class |-> <<
      [selector_specific |-> "0", selectors |->
         [container |-> "#center_col > table.ts",
          result_container |-> "td[valign=\"top\"]",
          title |-> "div:nth-child(2) > a::text",
          link |-> "div:nth-child(2) > a::attr(href)",
          price |-> "div:nth-child(3)",
          store |-> "div:nth-child(4) > cite"]],
      [selector_specific |-> "1", selectors |->
         [container |-> ".shopping-carousel-container",
          result_container |-> ".pla-unit-container",
          title |-> "h4._HLg",
          link |-> "a.pla-unit::attr(href)",
          price |-> "._XJg",
          store |-> "._FLg"]] >>],
    [result_type |-> "pla_side", selector_class |-> <<
      [selector_specific |-> "0", selectors |->
         [container |-> "#rhs_block > table.ts",
          result_container |-> "td[valign=\"top\"]",
          title |-> "._cf > div:nth-child(2) > a::text",
          link |-> "._cf > div:nth-child(2) > a::attr(href)",
          price |-> "._cf > div:nth-child(3)",
          store |-> "._cf > div:nth-child(4) > cite"]] >>]
  >>)

\* BaiduParser.normal_search_selectors (dict order = source order)
BaiduParser_normal_search_selectors ==
  Dict(<<
    [result_type |-> "organic", selector_class |-> <<
      [selector_specific |-> "0", selectors |->
         [container |-> "#content_left",
          result_container |-> ".c-container",
          title |-> "h3 > a::text",
          link |-> "h3 > a::attr(href)",
          snippet |-> ".c-abstract::text",
          visible_link |-> ".c-showurl::text"]] >>],
    [result_type |-> "brand_zone", selector_class |-> <<
      [selector_specific |-> "0", selectors |->
         [container |-> "#content_left",
          result_container |-> "div[class$=\"-0-0\"]",
          title |-> "a[class$=\"-header-title\"]::text",
          link |-> "a[class$=\"-header-title\"]::attr(href)",
          snippet |-> "div[id$=\"-description\"]::text",
          visible_link |-> "div[class$=\"-site\"]::text"]],
      [selector_specific |-> "1", selectors |->
         [container |-> "#content_left",
          result_container |-> "div[class$=\"-h1\"]",
          title |-> "h2 > a[class$=\"-header-title\"]::text",
          link |-> "h2 > a[class$=\"-header-title\"]::attr(href)",
          snippet |-> "div[id$=\"-description\"]",
          visible_link |-> "div[class$=\"-site\"]"]] >>],
    [result_type |-> "brand_zone_side", selector_class |-> <<
      [selector_specific |-> "1", selectors |->
         [container |-> "#content_right",
          result_container |-> "td[align=\"left\"] > div > div > div",
          title |-> "div[class$=\"-title\"] > h2[id$=\"-h2\"] > a::text",
          link |-> "div[class$=\"-title\"] > h2[id$=\"-h2\"] > a::attr(href)",
          snippet |-> "div[class$=\"-htmltext\"] > p[class$=\"-htmltext-desc\"] > a::text",
          visible_link |-> "div[class$=\"-show-url\"] > div[class$=\"-site\"] > a::text"]],
      [selector_specific |-> "2", selectors |->
         [container |-> "#content_right",
          result_container |-> "td > div > div",
          title |-> "FAKETAG",
          link |-> "div[class$=\"-atom-htmltext\"] > p[class$=\"-htmltext-desc\"] > a::attr(href)",
          snippet |-> "div[class$=\"-atom-htmltext\"] > p[class$=\"-htmltext-desc\"] > a::text",
          visible_link |-> "FAKETAG"]],
      [selector_specific |-> "3", selectors |->
         [container |-> "#content_right",
          result_container |-> "td[align=\"left\"] > div > div > div",
          title |-> "div[class$=\"-atom-htmltext\"] > p[class$=\"-htmltext-desc\"] > a::text",
          link |-> "div[class$=\"-atom-htmltext\"] > p[class$=\"-htmltext-desc\"] > a::attr(href)",
          snippet |-> "div[class$=\"-htmltext\"] > p[class$=\"-htmltext-desc\"] > a::text",
          visible_link |-> "div[class$=\"-show-url\"] > div[class$=\"-site\"] > a::text"]],
      [selector_specific |-> "4", selectors |->
         [container |-> "#content_right",
          result_container |-> "td > div > div",
          title |-> "FAKETAG",
          link |-> "div[class$=\"-atom-htmltext\"] > p[class$=\"-htmltext-desc\"] > a::attr(href)",
          snippet |-> "div[class$=\"-atom-htmltext\"] > p[class$=\"-htmltext-desc\"] > a::text",
          visible_link |-> "div[class$=\"-show-url\"] > div[class$=\"-site\"] > a::text"]] >>],
    [result_type |-> "promo_ads_side", selector_class |-> <<
      [selector_specific |-> "0", selectors |->
         [container |-> ".ad-widget",
          result_container |-> ".ec-figcaption",
          link |-> "h2 > a::attr(href)",
          snippet |-> ".ec-description-link",
          title |-> "h2 > a::text",
          visible_link |-> ".ec-footer::text"]] >>],
    [result_type |-> "ads_side", selector_class |-> <<
      [selector_specific |-> "1", selectors |->
         [container |-> "#ec_im_container",
          result_container |-> "div[id^=\"bdfs\"]",
          title |-> "a[id^=\"dfs\"]::text",
          link |-> "a[id^=\"dfs\"]::attr(href)",
          snippet |-> "a[id^=\"bdfs\"] > font:nth-child(2)",
          visible_link |-> "a[id^=\"bdfs\"] > font:nth-child(4)"]] >>],
    [result_type |-> "ads_bottom", selector_class |-> <<
      [selector_specific |-> "0", selectors |->
         [container |-> "#content_left",
          result_container |-> "div[id^=\"50\"]",
          link |-> "h3 > a::attr(href)",
          snippet |-> "div > a::text",
          title |-> "h3 > a::text",
          visible_link |-> "a > span::text"]],
      [selector_specific |-> "1", selectors |->
         [container |-> "#content_left",
          result_container |-> "div[id^=\"50\"]",
          title |-> "div:nth-child(1) > h3 > a::text",
          link |-> "div:nth-child(1) > h3 > a::attr(href)",
          snippet |-> "div:nth-child(2) > a::text",
          visible_link |-> "div:nth-child(3) > a > span"]],
      [selector_specific |-> "2", selectors |->
         [container |-> "#content_left",
          result_container |-> "div[id^=\"50\"]",
          title |-> "div:nth-child(1) > h3 > a::text",
          link |-> "div:nth-child(1) > h3 > a::attr(href)",
          snippet |-> "div:nth-child(2) tr:nth-child(2) > div > font > a::text",
          visible_link |-> "div:nth-child(2) tr:nth-child(2) > div > div > a > span"]],
      [selector_specific |-> "3", selectors |->
         [container |-> "#content_left",
          result_container |-> "div[id^=\"50\"]",
          title |-> "div:nth-child(1) > h3 > a::text",
          link |-> "div:nth-child(1) > h3 > a::attr(href)",
          snippet |-> "div:nth-child(2) > a::text",
          visible_link |-> "div:nth-child(3) > a > span"]],
      [selector_specific |-> "4", selectors |->
         [container |-> "#content_left",
          result_container |-> "div[id^=\"50\"]",
          title |-> "div:nth-child(1) > h3 > a::text",
          link |-> "div:nth-child(1) > h3 > a::attr(href)",
          snippet |-> "font > a::text",
          visible_link |-> "div:nth-child(2) > a > span"]] >>],
    [result_type |-> "ads_top", selector_class |-> <<
      [selector_specific |-> "0", selectors |->
         [container |-> "#content_left",
          result_container |-> "#4001",
          link |-> "h3 > a::attr(href)",
          snippet |-> "div > a::text",
          title |-> "h3 > a::text",
          visible_link |-> "a > span::text"]],
      [selector_specific |-> "1", selectors |->
         [container |-> "#content_left",
          result_container |-> "div[id^=\"40\"]",
          title |-> "div:nth-child(1) > h3 > a::text",
          link |-> "div:nth-child(1) > h3 > a::attr(href)",
          snippet |-> "div:nth-child(2) > div:nth-child(1) > div:nth-child(2)",
          visible_link |-> "div:nth-child(3) > a > span"]],
      [selector_specific |-> "2", selectors |->
         [container |-> "#content_left",
          result_container |-> "div[id^=\"40\"]",
          title |-> "div:nth-child(1) > h3 > a::text",
          link |-> "div:nth-child(1) > h3 > a::attr(href)",
          snippet |-> "div:nth-child(2) > a::text",
          visible_link |-> "div:nth-child(3) > a > span"]],
      [selector_specific |-> "3", selectors |->
         [container |-> "#content_left",
          result_container |-> "div[id^=\"40\"]",
          title |-> "div:nth-child(1) > h3 > a::text",
          link |-> "div:nth-child(1) > h3 > a::attr(href)",
          snippet |-> "div:nth-child(2) > table div > font > a::text",
          visible_link |-> "div:nth-child(3) > a > span"]] >>]
  >>)

\* YandexParser.normal_search_selectors (dict order = source order)
YandexParser_normal_search_selectors ==
  Dict(<<
    [result_type |-> "organic", selector_class |-> <<
      [selector_specific |-> "de_ip", selectors |->
         [container |-> "div.serp-list",
          result_container |-> "div.serp-item__wrap ",
          link |-> "a.serp-item__title-link::attr(href)",
          snippet |-> "div.serp-item__text::text",
          title |-> "a.serp-item__title-link::text",
          visible_link |-> "a.serp-url__link::attr(href)"]] >>]
  >>)

\* YandexParser.image_search_selectors (dict order = source order)
YandexParser_image_search_selectors ==
  Dict(<<
    [result_type |-> "organic", selector_class |-> <<
      [selector_specific |-> "de_ip", selectors |->
         [container |-> ".page-layout__content-wrapper",
          result_container |-> ".serp-item__preview",
          link |-> ".serp-item__preview .serp-item__link::attr(onmousedown)"]],
      [selector_specific |-> "de_ip_raw", selectors |->
         [container |-> ".page-layout__content-wrapper",
          result_container |-> ".serp-item__preview",
          link |-> ".serp-item__preview .serp-item__link::attr(href)"]] >>]
  >>)

\* BingParser.normal_search_selectors (dict order = source order)
BingParser_normal_search_selectors ==
  Dict(<<
    [result_type |-> "organic", selector_class |-> <<
      [selector_specific |-> "us_ip", selectors |->
         [container |-> "#b_results",
          result_container |-> ".b_algo",
          link |-> "h2 > a::attr(href)",
          snippet |-> ".b_caption > p::text",
          title |-> "h2::text",
          visible_link |-> "cite::text"]],
      [selector_specific |-> "de_ip", selectors |->
         [container |-> "#b_results",
          result_container |-> ".b_algo",
          link |-> "h2 > a::attr(href)",
          snippet |-> ".b_caption > p::text",
          title |-> "h2::text",
          visible_link |-> "cite::text"]],
      [selector_specific |-> "de_ip_news_items", selectors |->
         [container |-> "ul.b_vList li",
          link |-> " h5 a::attr(href)",
          snippet |-> "p::text",
          title |-> " h5 a::text",
          visible_link |-> "cite::text"]] >>],
    [result_type |-> "ads_main", selector_class |-> <<
      [selector_specific |-> "us_ip", selectors |->
         [container |-> "#b_results .b_ad",
          result_container |-> ".sb_add",
          link |-> "h2 > a::attr(href)",
          snippet |-> ".sb_addesc::text",
          title |-> "h2 > a::text",
          visible_link |-> "cite::text"]],
      [selector_specific |-> "de_ip", selectors |->
         [container |-> "#b_results .b_ad",
          result_container |-> ".sb_add",
          link |-> "h2 > a::attr(href)",
          snippet |-> ".b_caption > p::text",
          title |-> "h2 > a::text",
          visible_link |-> "cite::text"]] >>]
  >>)

\* BingParser.image_search_selectors (dict order = source order)
BingParser_image_search_selectors ==
  Dict(<<
    [result_type |-> "organic", selector_class |-> <<
      [selector_specific |-> "ch_ip", selectors |->
         [container |-> "#dg_c .imgres",
          result_container |-> ".dg_u",
          link |-> "a.dv_i::attr(m)"]] >>]
  >>)

\* YahooParser.normal_search_selectors (dict order = source order)
YahooParser_normal_search_selectors ==
  Dict(<<
    [result_type |-> "organic", selector_class |-> <<
      [selector_specific |-> "de_ip", selectors |->
         [container |-> "#main",
          result_container |-> ".res",
          link |-> "div > h3 > a::attr(href)",
          snippet |-> "div.abstr::text",
          title |-> "div > h3 > a::text",
          visible_link |-> "span.url::text"]] >>]
  >>)

\* YahooParser.image_search_selectors (dict order = source order)
YahooParser_image_search_selectors ==
  Dict(<<
    [result_type |-> "organic", selector_class |-> <<
      [selector_specific |-> "ch_ip", selectors |->
         [container |-> "#results",
          result_container |-> "#sres > li",
          link |-> "a::attr(href)"]] >>]
  >>)

\* DuckduckgoParser.normal_search_selectors (dict order = source order)
DuckduckgoParser_normal_search_selectors ==
  Dict(<<
    [result_type |-> "organic", selector_class |-> <<
      [selector_specific |-> "de_ip", selectors |->
         [container |-> "#links",
          result_container |-> ".result",
          link |-> ".result__title > a::attr(href)",
          snippet |-> "result__snippet::text",
          title |-> ".result__title > a::text",
          visible_link |-> ".result__url__domain::text"]] >>]
  >>)

\* AskParser.normal_search_selectors (dict order = source order)
AskParser_normal_search_selectors ==
  Dict(<<
    [result_type |-> "organic", selector_class |-> <<
      [selector_specific |-> "de_ip", selectors |->
         [container |-> "#midblock",
          result_container |-> ".ptbs.ur",
          link |-> ".abstract > a::attr(href)",
          snippet |-> ".abstract::text",
          title |-> ".txt_lg.b::text",
          visible_link |-> ".durl span::text"]] >>]
  >>)

\* BlekkoParser.normal_search_selectors (dict order = source order)
BlekkoParser_normal_search_selectors ==
  Dict(<<
    [result_type |-> "organic", selector_class |-> <<
      [selector_specific |-> "de_ip", selectors |->
         [container |-> "#links",
          result_container |-> ".result",
          link |-> ".result__title > a::attr(href)",
          snippet |-> "result__snippet::text",
          title |-> ".result__title > a::text",
          visible_link |-> ".result__url__domain::text"]] >>]
  >>)

\* YouTubeParser.normal_search_selectors (dict order = source order)
YouTubeParser_normal_search_selectors ==
  Dict(<<
    [result_type |-> "organic", selector_class |-> <<
      [selector_specific |-> "us_ip", selectors |->
         [container |-> "#result",
          result_container |-> "yt-lockup-content",
          link |-> "yt-lockup-title > a::attr(href)",
          snippet |-> "yt-lockup-description yt-ui-ellipsis yt-ui-ellipsis-2",
          title |-> "yt-lockup-title > a::text",
          user |-> "yt-lockup-byline > a::text",
          profile_url |-> "yt-lockup-byline > a::attr(href)"]] >>],
    [result_type |-> "sponsored_ads", selector_class |-> <<
      [selector_specific |-> "us_ip", selectors |->
         [container |-> ".pyv-afc-ads-inner",
          result_container |-> ".yt-lockup-content",
          link |-> ".yt-lockup-title > a::attr(href)",
          snippet |-> ".yt-lockup-description.yt-ui-ellipsis.yt-ui-ellipsis-2",
          title |-> ".yt-lockup-title > a::text",
          user |-> ".yt-lockup-byline > a::text",
          profile_url |-> ".yt-lockup-byline > a::attr(href)"]] >>]
  >>)

\* YouTubeSponsoredParser.normal_search_selectors (dict order = source order)
YouTubeSponsoredParser_normal_search_selectors ==
  Dict(<<
    [result_type |-> "sponsored_ads", selector_class |-> <<
      [selector_specific |-> "us_ip", selectors |->
         [container |-> ".pyv-afc-ads-inner",
          result_container |-> ".yt-lockup-content",
          link |-> ".yt-lockup-title > a::attr(snippet)",
          href |-> ".yt-lockup-description.yt-ui-ellipsis.yt-ui-ellipsis-2",
          title |-> ".yt-lockup-title > a::text",
          user |-> ".yt-lockup-byline > a::text",
          profile_url |-> ".yt-lockup-byline > a::attr(href)"]] >>]
  >>)

\* CustomParser's schemas: {} for normal, a non-empty list for image, [] for video.
CustomParser_normal_search_selectors == Dict(<<>>)

CustomParser_image_search_selectors == [type |-> "list", items |-> <<"organic">>]

CustomParser_video_search_selectors == [type |-> "list", items |-> <<>>]

NoAttribute == [type |-> "NoneType", items |-> <<>>]

\* getattr(self, self.searchtype + '_search_selectors', None)
getattr_search_selectors(c, searchtype) ==
  CASE c = "GoogleParser" /\ searchtype = "normal" -> GoogleParser_normal_search_selectors
    [] c = "BaiduParser" /\ searchtype = "normal" -> BaiduParser_normal_search_selectors
    [] c = "YandexParser" /\ searchtype = "normal" -> YandexParser_normal_search_selectors
    [] c = "YandexParser" /\ searchtype = "image" -> YandexParser_image_search_selectors
    [] c = "BingParser" /\ searchtype = "normal" -> BingParser_normal_search_selectors
    [] c = "BingParser" /\ searchtype = "image" -> BingParser_image_search_selectors
    [] c = "YahooParser" /\ searchtype = "normal" -> YahooParser_normal_search_selectors
    [] c = "YahooParser" /\ searchtype = "image" -> YahooParser_image_search_selectors
    [] c = "DuckduckgoParser" /\ searchtype = "normal" -> DuckduckgoParser_normal_search_selectors
    [] c = "AskParser" /\ searchtype = "normal" -> AskParser_normal_search_selectors
    [] c = "BlekkoParser" /\ searchtype = "normal" -> BlekkoParser_normal_search_selectors
    [] c = "YouTubeParser" /\ searchtype = "normal" -> YouTubeParser_normal_search_selectors
    [] c = "YouTubeSponsoredParser" /\ searchtype = "normal"
         -> YouTubeSponsoredParser_normal_search_selectors
    [] c = "CustomParser" /\ searchtype = "normal" -> CustomParser_normal_search_selectors
    [] c = "CustomParser" /\ searchtype = "image" -> CustomParser_image_search_selectors
    [] c = "CustomParser" /\ searchtype = "video" -> CustomParser_video_search_selectors
    [] OTHER -> NoAttribute

\* bool(selector_dict)
DictTruthy(selector_dict) == selector_dict.items # <<>>

\* The test of line 181: the schema is rejected.
NoSelectorsFound(selector_dict) ==
  ~DictTruthy(selector_dict) /\ selector_dict.type # "dict"

\* ------------------------------------------------------------------ inputs
\* Config['SCRAPING'].get('search_type', 'normal')
SearchTypeSettings == {"normal", "image", "video"}

\* Raw HTML: whitespace only (lxml raises "Document is empty"), a page, and a
\* page that carries one of Google's no-results phrases.
Htmls(c) ==
  {<<" ">>, <<"<html>">>}
    \cup (IF c = "GoogleParser" THEN {<<"<html>", "did not match any documents">>} ELSE {})

\* lxml.html.document_fromstring(html) succeeds.
Parsable(h) == \E i \in DOMAIN h : h[i] \notin Whitespace

\* The elements of a document that its text shows.
Marks(h) == IF h = None THEN 0 ELSE Len(h) - 1

Queries(c) ==
  IF c = "BingParser" THEN {<<>>, <<"q">>}
  ELSE IF c = "GoogleParser" THEN {<<>>, <<"\"", "q", "\"">>}
  ELSE {<<"q">>}

\* Line 851's phrase ("nothing was found for your query"), in Latin letters.
YandexNothingFound == <<"Po vashemu zaprosu nichego ne nashlos">>

\* What advanced_css can return for the selectors of a page-level selector
\* list (None: no element matches).
PageValues(key) ==
  CASE key = "num_results" -> {None, <<"About 5 results">>}
    [] key = "page_number" -> {None, <<"2">>, <<"next">>}
    [] key = "effective_query" -> {None, <<"other query">>}
    [] key = "no_results" -> {None, <<"Do you want results only for">>,
                              <<"nothing for", "q">>, YandexNothingFound}

PageSelectors(c, key) ==
  CASE key = "num_results" -> num_results_search_selectors(c)
    [] key = "page_number" -> page_number_selectors(c)
    [] key = "effective_query" -> effective_query_selector(c)
    [] key = "no_results" -> no_results_selector(c)

PageKeys == {"num_results", "page_number", "effective_query", "no_results"}

\* The page-level elements of a document with at most `budget` of them, for a
\* parser of class c: what each selector list finds.
PageTexts(c, budget) ==
  {t \in [PageKeys -> UNION {PageValues(k) : k \in PageKeys}] :
     /\ \A k \in PageKeys : t[k] \in PageValues(k)
     /\ \A k \in PageKeys : PageSelectors(c, k) = <<>> => t[k] = None
     /\ Cardinality({k \in PageKeys : t[k] # None}) <= budget}

LinkA == <<"http://", "a.com">>
LinkB == <<"http://", "b.com">>
\* Google's redirect wrapper around LinkA, and around nothing.
WrappedA == <<"/url?q=", "http://", "a.com", "&sa=U&ei=", "XYZ">>
WrappedEmpty == <<"/url?q=", "&sa=U&ei=", "XYZ">>
\* ... and around a link with a percent escape in it.
WrappedEscaped == <<"/url?q=", "http://", "b.com", "%2F", "&sa=U&ei=", "XYZ">>
\* The text of a cite element: the host between whitespace, and more text.
VisibleA == <<" ", "a.com", " ", "Cached">>

\* What advanced_css can return for a field of a candidate node. The values
\* offered for a field are those the engine's code tells apart.
FieldValues(c, key) ==
  CASE key = "link" ->
         IF c = "GoogleParser" THEN {None, LinkA, WrappedA, WrappedEmpty, WrappedEscaped}
         ELSE {None, LinkA, LinkB}
    [] key = "visible_link" ->
         IF c \in {"GoogleParser", "BaiduParser"} THEN {None, VisibleA} ELSE {None, <<"a.com">>}
    [] key = "snippet" ->
         IF c = "GoogleParser" THEN {None, <<"all about", "q">>, <<"other text">>}
         ELSE IF c = "BaiduParser" THEN {None}
         ELSE {<<"text">>}
    [] key = "title" -> IF c = "BaiduParser" THEN {None, <<"title">>} ELSE {<<"title">>}
    [] OTHER -> {<<"text">>}

\* The keys whose values the parser's own code reads.
ReadKeys == {"link", "visible_link", "snippet", "title"}

\* ------------------------------------------------------------------- state
VARIABLES
  Config,                \* Config['SCRAPING']['search_type'], shared and read-only
  cls,                   \* the class of each parser object
  pc,                    \* where each parser object's control is
  exc,                   \* the exception the last call on it raised, or "none"
  calls,                 \* parse calls started on it
  in_init,               \* the running parse was called by __init__
  html, dom, query, searchtype,
  search_results, num_results_for_query, num_results, effective_query,
  page_number, no_results, no_results_text,
  rt_i, sel_i, res_i,    \* positions of the three nested loops of _parse
  n_results,             \* len(results) of the running layout variant
  current_rank,
  serp_result,           \* the candidate the loop body built last
  op,                    \* what lines 233-258 did with it
  seen,                  \* values already read from nodes a later variant queries again
  fresh,                 \* elements of the documents drawn so far (bounded by MaxNodes)
  fn, arg, ret           \* a call of a function of the module: its name, argument, outcome

ctl == <<pc, exc, calls, in_init>>
attrs == <<html, dom, query, searchtype, search_results, num_results_for_query,
           num_results, effective_query, page_number, no_results, no_results_text>>
loopv == <<rt_i, sel_i, res_i, n_results, current_rank, seen, fresh>>
locals == <<serp_result, op>>
fcall == <<fn, arg, ret>>
vars == <<Config, cls, ctl, attrs, loopv, locals, fcall>>

\* The parser objects of a behaviour: a sequential run uses the first.
Parsers == {"p1", "p2"}

Dom == <<"<dom>">>

\* A parser class not yet instantiated.
NoObject ==
  /\ Config \in SearchTypeSettings
  /\ cls \in [Parsers -> Classes]
  /\ \A p \in Parsers : cls[p] = cls["p1"]
  /\ pc = [p \in Parsers |-> "new"]
  /\ exc = [p \in Parsers |-> "none"]
  /\ calls = [p \in Parsers |-> 0]
  /\ in_init = [p \in Parsers |-> FALSE]
  /\ html = [p \in Parsers |-> None]
  /\ dom = [p \in Parsers |-> None]
  /\ query = [p \in Parsers |-> <<>>]
  /\ searchtype = [p \in Parsers |-> ""]
  /\ search_results = [p \in Parsers |-> <<>>]
  /\ num_results_for_query = [p \in Parsers |-> <<>>]
  /\ num_results = [p \in Parsers |-> 0]
  /\ effective_query = [p \in Parsers |-> <<>>]
  /\ page_number = [p \in Parsers |-> -1]
  /\ no_results = [p \in Parsers |-> FALSE]
  /\ no_results_text = [p \in Parsers |-> Unset]
  /\ rt_i = [p \in Parsers |-> 0]
  /\ sel_i = [p \in Parsers |-> 0]
  /\ res_i = [p \in Parsers |-> 0]
  /\ n_results = [p \in Parsers |-> 0]
  /\ current_rank = [p \in Parsers |-> 1]
  /\ seen = [p \in Parsers |-> {}]
  /\ fresh = [p \in Parsers |-> 0]
  /\ serp_result = [p \in Parsers |-> <<>>]
  /\ op = [p \in Parsers |-> "none"]

Init ==
  /\ NoObject
  /\ fn = "none"
  /\ arg = <<>>
  /\ ret = [done |-> FALSE]

\* ----------------------------------------------------------------- helpers
\* d[k] = v on a dict
Put(d, k, v) == [x \in DOMAIN d \cup {k} |-> IF x = k THEN v ELSE d[x]]

IntTokens == {"1", "2", "3"}

IntValue(t) == CASE t = "1" -> 1 [] t = "2" -> 2 [] t = "3" -> 3

\* int(v) for first_match's result: int(False) is 0, the digits of a str are
\* its value, anything else raises ValueError.
int(v) ==
  IF v = False THEN [raised |-> FALSE, value |-> 0]
  ELSE IF Len(v) = 1 /\ v[1] \in IntTokens THEN [raised |-> FALSE, value |-> IntValue(v[1])]
  ELSE [raised |-> TRUE, value |-> 0]

\* A first_match that runs the empty selectors too.
first_match_EmptySelectorsToo(selectors, element, values) ==
  LET hits == {i \in DOMAIN selectors : Truthy(values[i])}
  IN IF selectors # <<>> /\ element = None THEN [raised |-> TRUE, value |-> False]
     ELSE IF hits = {} THEN [raised |-> FALSE, value |-> False]
     ELSE [raised |-> FALSE, value |-> values[CHOOSE i \in hits : \A j \in hits : i <= j]]

\* Parser.first_match(selectors, element), where values[i] is what
\* advanced_css(selectors[i], element) returns on a parsed document. On
\* element = None advanced_css raises AttributeError (None has no xpath),
\* which first_match does not catch.
RECURSIVE first_match(_, _, _)
first_match(selectors, element, values) ==
  IF selectors = <<>> THEN [raised |-> FALSE, value |-> False]
  ELSE IF Head(selectors) # ""
  THEN IF element = None THEN [raised |-> TRUE, value |-> False]
       ELSE IF Truthy(Head(values)) THEN [raised |-> FALSE, value |-> Head(values)]
       ELSE first_match(Tail(selectors), element, Tail(values))
  ELSE first_match(Tail(selectors), element, Tail(values))

\* The schema of a parser object, and the loops' current items.
selector_dict(self) == getattr_search_selectors(cls[self], searchtype[self])

CurrentType(self) == selector_dict(self).items[rt_i[self]]

result_type(self) == CurrentType(self).result_type

selectors_(self) == CurrentType(self).selector_class[sel_i[self]].selectors

\* Lines 193-196: the query of a layout variant, as its parts.
Css(selectors) ==
  IF "result_container" \in DOMAIN selectors /\ selectors.result_container # ""
  THEN <<selectors.container, selectors.result_container>>
  ELSE <<selectors.container>>

\* Line 207
to_extract(selectors) == DOMAIN selectors \ {"container", "result_container"}

\* The elements the documents of a parser object may hold: one more for a
\* schema with a single layout variant.
Budget(c, search_type) ==
  LET schema == getattr_search_selectors(c, search_type)
  IN IF schema.type = "dict" /\ Len(schema.items) = 1
     THEN (IF Len(schema.items[1].selector_class) = 1 THEN MaxNodes + 1 ELSE MaxNodes)
     ELSE MaxNodes

Left(self) == Budget(cls[self], searchtype[self]) - fresh[self]

\* ----------------------------------------------------------------- control
\* An exception leaves the call; out of __init__ it leaves no object behind.
Raise(self, e) ==
  /\ exc' = [exc EXCEPT ![self] = e]
  /\ pc' = [pc EXCEPT ![self] = IF in_init[self] THEN "failed" ELSE "idle"]
  /\ in_init' = [in_init EXCEPT ![self] = FALSE]
  /\ UNCHANGED calls

Return(self) ==
  /\ exc' = [exc EXCEPT ![self] = "none"]
  /\ pc' = [pc EXCEPT ![self] = "idle"]
  /\ in_init' = [in_init EXCEPT ![self] = FALSE]
  /\ UNCHANGED calls

\* An __init__ that accepts every search type.
CanHandle_Anything(c, search_type) == TRUE

\* Lines 90-93: the assertion of __init__, self.searchtype in self.search_types.
CanHandle(c, search_type) == search_type \in Range(search_types(c))

\* Parser.__init__(html, query)
Construct(self) ==
  /\ pc[self] = "new"
  /\ searchtype' = [searchtype EXCEPT ![self] = Config]
  /\ IF ~CanHandle(cls[self], Config)
     THEN /\ exc' = [exc EXCEPT ![self] = "AssertionError"]
          /\ pc' = [pc EXCEPT ![self] = "failed"]
          /\ UNCHANGED <<calls, in_init, html, dom, query, search_results,
                         num_results_for_query, num_results, effective_query,
                         page_number, no_results, no_results_text, fresh>>
     ELSE \E h \in {None} \cup Htmls(cls[self]), q \in Queries(cls[self]) :
          /\ Marks(h) <= Budget(cls[self], Config) - fresh[self]
          /\ fresh' = [fresh EXCEPT ![self] = @ + Marks(h)]
          /\ query' = [query EXCEPT ![self] = q]
          /\ html' = [html EXCEPT ![self] = h]
          /\ dom' = [dom EXCEPT ![self] = None]
          /\ search_results' = [search_results EXCEPT ![self] = <<>>]
          /\ num_results_for_query' = [num_results_for_query EXCEPT ![self] = <<>>]
          /\ num_results' = [num_results EXCEPT ![self] = 0]
          /\ effective_query' = [effective_query EXCEPT ![self] = <<>>]
          /\ page_number' = [page_number EXCEPT ![self] = -1]
          /\ no_results' = [no_results EXCEPT ![self] = FALSE]
          /\ UNCHANGED <<exc, no_results_text>>
          /\ IF Truthy(h)
             THEN /\ pc' = [pc EXCEPT ![self] = "_parse"]
                  /\ in_init' = [in_init EXCEPT ![self] = TRUE]
                  /\ calls' = [calls EXCEPT ![self] = 1]
             ELSE /\ pc' = [pc EXCEPT ![self] = "idle"]
                  /\ UNCHANGED <<calls, in_init>>
  /\ UNCHANGED <<fcall, Config, cls, rt_i, sel_i, res_i, n_results, current_rank, seen, locals>>

\* Parser.parse(html)
Parse(self) ==
  /\ pc[self] = "idle"
  /\ calls[self] < MaxCalls
  /\ \E h \in {None} \cup Htmls(cls[self]) :
       /\ Marks(h) <= Left(self)
       /\ fresh' = [fresh EXCEPT ![self] = @ + Marks(h)]
       /\ html' = [html EXCEPT ![self] = IF Truthy(h) THEN h ELSE html[self]]
  /\ pc' = [pc EXCEPT ![self] = "_parse"]
  /\ calls' = [calls EXCEPT ![self] = @ + 1]
  /\ exc' = [exc EXCEPT ![self] = "none"]
  /\ UNCHANGED <<fcall, Config, cls, in_init, dom, query, searchtype, search_results,
                 num_results_for_query, num_results, effective_query, page_number,
                 no_results, no_results_text, rt_i, sel_i, res_i, n_results,
                 current_rank, seen, locals>>

\* Parser._parse up to the extraction loops: lines 144-182, with _parse_lxml.
ParseHead(self) ==
  /\ pc[self] = "_parse"
  /\ \E t \in PageTexts(cls[self],
                         IF html[self] # None /\ (Parsable(html[self]) \/ dom[self] # None)
                         THEN Left(self) ELSE 0) :
     LET c == cls[self]
         d == IF html[self] # None /\ Parsable(html[self]) THEN Dom ELSE dom[self]
         all(sels, v) == [i \in DOMAIN sels |-> v]
         m1 == first_match(num_results_search_selectors(c), d,
                           all(num_results_search_selectors(c), t.num_results))
         m2 == first_match(page_number_selectors(c), d,
                           all(page_number_selectors(c), t.page_number))
         m3 == first_match(effective_query_selector(c), d,
                           all(effective_query_selector(c), t.effective_query))
         m4 == first_match(no_results_selector(c), d,
                           all(no_results_selector(c), t.no_results))
         sd == selector_dict(self)
         \* the statement that raises: 0 for none
         fail_at == IF html[self] = None THEN 0 - 1
                    ELSE IF m1.raised THEN 1
                    ELSE IF m2.raised THEN 2
                    ELSE IF m3.raised THEN 3
                    ELSE IF m4.raised THEN 4
                    ELSE IF NoSelectorsFound(sd) THEN 5
                    ELSE IF sd.type # "dict" THEN 6
                    ELSE 0
         reached(k) == fail_at = 0 \/ fail_at > k
     IN /\ dom' = [dom EXCEPT ![self] = d]
        /\ fresh' = [fresh EXCEPT ![self] = @ + Cardinality({k \in PageKeys : t[k] # None})]
        /\ num_results_for_query' =
             [num_results_for_query EXCEPT ![self] = IF reached(1) THEN m1.value ELSE @]
        /\ page_number' =
             [page_number EXCEPT ![self] =
                IF reached(2) THEN (IF int(m2.value).raised THEN 0 - 1 ELSE int(m2.value).value)
                ELSE @]
        /\ effective_query' =
             [effective_query EXCEPT ![self] = IF reached(3) THEN m3.value ELSE @]
        /\ no_results_text' =
             [no_results_text EXCEPT ![self] = IF reached(4) THEN m4.value ELSE @]
        /\ IF fail_at = 0
           THEN /\ pc' = [pc EXCEPT ![self] = "loop"]
                /\ UNCHANGED <<exc, calls, in_init>>
           ELSE Raise(self, CASE fail_at = 0 - 1 -> "TypeError"
                              [] fail_at = 5 -> "InvalidSearchTypeException"
                              [] OTHER -> "AttributeError")
  /\ rt_i' = [rt_i EXCEPT ![self] = 0]
  /\ sel_i' = [sel_i EXCEPT ![self] = 0]
  /\ res_i' = [res_i EXCEPT ![self] = 0]
  /\ n_results' = [n_results EXCEPT ![self] = 0]
  /\ seen' = [seen EXCEPT ![self] = {}]
  /\ serp_result' = [serp_result EXCEPT ![self] = <<>>]
  /\ op' = [op EXCEPT ![self] = "none"]
  /\ UNCHANGED <<fcall, Config, cls, html, query, searchtype, search_results, num_results,
                 no_results, current_rank>>

\* The layout variants of the schema, as (result type, variant) positions in
\* the order the two outer loops of _parse reach them.
Positions(self) ==
  LET items == selector_dict(self).items
  IN UNION {{<<r, s>> : s \in DOMAIN items[r].selector_class} : r \in DOMAIN items}

Before(p, t) == IF p[1] = t[1] THEN p[2] < t[2] ELSE p[1] < t[1]

CssAt(self, p) == Css(selector_dict(self).items[p[1]].selector_class[p[2]].selectors)

\* len(results) of an earlier variant of the running result type with this query.
KnownLen(self, css) == {m[3] : m \in {x \in seen[self] : x[1] = "len" /\ x[2] = css}}

\* The variant at p, not reached yet, can match no node: no earlier variant
\* of its result type found nodes with the same query.
CanBeEmpty(self, p) ==
  IF p[1] # rt_i[self] THEN TRUE ELSE KnownLen(self, CssAt(self, p)) \subseteq {0}

\* A later variant of p's result type runs p's query.
QueriedAfter(self, p) ==
  \E t \in Positions(self) : t[1] = p[1] /\ t[2] > p[2] /\ CssAt(self, t) = CssAt(self, p)

\* An outer loop that gives a list only to the result type it stops at.
EnterTypes_OnlyLast(self, d, upto) ==
  [k \in DOMAIN d \cup {selector_dict(self).items[upto].result_type} |->
     IF k = selector_dict(self).items[upto].result_type THEN <<>> ELSE d[k]]

\* search_results[result_type] = [] for the result types the outer loop enters
\* on its way to result type `upto` (line 189).
EnterTypes(self, d, upto) ==
  LET entered == {selector_dict(self).items[r].result_type : r \in (rt_i[self] + 1)..upto}
  IN [k \in DOMAIN d \cup entered |-> IF k \in entered THEN <<>> ELSE d[k]]

\* Lines 187-210: the loops advance to the next layout variant whose query
\* matches nodes; the variants passed on the way match none. The number of
\* matching nodes is an input, unless an earlier variant of the result type
\* ran the same query. current_rank starts at 1 (line 210).
NextVariant(self) ==
  /\ pc[self] = "loop"
  /\ dom[self] # None
  /\ res_i[self] = n_results[self]
  /\ \E t \in Positions(self) :
     LET cur == <<rt_i[self], sel_i[self]>>
         passed == {p \in Positions(self) : Before(cur, p) /\ Before(p, t)}
         css == CssAt(self, t)
         forced == IF t[1] = rt_i[self] THEN KnownLen(self, css) ELSE {}
         counts == IF forced # {} THEN forced \ {0} ELSE 1..Left(self)
         kept == IF t[1] = rt_i[self] THEN seen[self] ELSE {}
     IN /\ Before(cur, t)
        /\ \A p \in passed : CanBeEmpty(self, p)
        /\ ~\E p \in passed : p[1] = t[1] /\ CssAt(self, p) = css
        /\ \E n \in counts :
             /\ n_results' = [n_results EXCEPT ![self] = n]
             /\ fresh' = [fresh EXCEPT ![self] = IF forced # {} THEN @ ELSE @ + n]
             /\ seen' = [seen EXCEPT ![self] =
                           kept \cup {<<"len", CssAt(self, p), 0>> :
                                        p \in {x \in passed : x[1] = t[1] /\ QueriedAfter(self, x)}}
                                \cup (IF QueriedAfter(self, t) THEN {<<"len", css, n>>} ELSE {})]
        /\ search_results' = [search_results EXCEPT ![self] = EnterTypes(self, @, t[1])]
        /\ rt_i' = [rt_i EXCEPT ![self] = t[1]]
        /\ sel_i' = [sel_i EXCEPT ![self] = t[2]]
  /\ res_i' = [res_i EXCEPT ![self] = 0]
  /\ current_rank' = [current_rank EXCEPT ![self] = 1]
  /\ UNCHANGED <<fcall, Config, cls, ctl, html, dom, query, searchtype, num_results_for_query,
                 num_results, effective_query, page_number, no_results, no_results_text,
                 locals>>

\* Lines 187-210 when no further variant matches a node: the loops end, and
\* with _parse its locals.
EndLoop(self) ==
  /\ pc[self] = "loop"
  /\ IF dom[self] = None THEN selector_dict(self).items = <<>> ELSE TRUE
  /\ res_i[self] = n_results[self]
  /\ \A p \in Positions(self) : Before(<<rt_i[self], sel_i[self]>>, p) => CanBeEmpty(self, p)
  /\ search_results' =
       [search_results EXCEPT ![self] = EnterTypes(self, @, Len(selector_dict(self).items))]
  /\ pc' = [pc EXCEPT ![self] = "after_parsing"]
  /\ UNCHANGED <<fcall, Config, cls, exc, calls, in_init, html, dom, query, searchtype,
                 num_results_for_query, num_results, effective_query, page_number,
                 no_results, no_results_text, fresh>>
  /\ rt_i' = [rt_i EXCEPT ![self] = 0]
  /\ sel_i' = [sel_i EXCEPT ![self] = 0]
  /\ res_i' = [res_i EXCEPT ![self] = 0]
  /\ n_results' = [n_results EXCEPT ![self] = 0]
  /\ current_rank' = [current_rank EXCEPT ![self] = 1]
  /\ seen' = [seen EXCEPT ![self] = {}]
  /\ serp_result' = [serp_result EXCEPT ![self] = <<>>]
  /\ op' = [op EXCEPT ![self] = "none"]

\* Lines 189-198 on a document that was not parsed: the first result type gets
\* its list, and self.dom.xpath raises AttributeError on None.
XPathOnNone(self) ==
  /\ pc[self] = "loop"
  /\ dom[self] = None
  /\ selector_dict(self).items # <<>>
  /\ search_results' = [search_results EXCEPT ![self] = EnterTypes(self, @, 1)]
  /\ Raise(self, "AttributeError")
  /\ UNCHANGED <<fcall, Config, cls, html, dom, query, searchtype, num_results_for_query,
                 num_results, effective_query, page_number, no_results, no_results_text,
                 loopv, locals>>

\* Ranks counted from zero.
WithRank_ZeroBased(cand, rank) == Put(cand, "rank", rank - 1)

\* serp_result['rank'] = rank
WithRank(cand, rank) == Put(cand, "rank", rank)

\* Line 234: the accepted records of the list with this link.
SameLink(list, cand) == {i \in DOMAIN list : list[i]["link"] = cand["link"]}

\* An append test that does not look at the accepted records.
IsNewLink_AnyLink(list, cand) == "link" \in DOMAIN cand /\ Truthy(cand["link"])

\* An append test over a search_results shared by all parser objects, as a
\* class attribute would be.
IsNewLink_AcrossObjects(list, cand) ==
  /\ "link" \in DOMAIN cand
  /\ Truthy(cand["link"])
  /\ \A p \in Parsers : \A t \in DOMAIN search_results[p] :
        \A i \in DOMAIN search_results[p][t] :
          search_results[p][t][i]["link"] # cand["link"]

\* An append test that looks for the link in the lists of every result type
\* of the parser object.
IsNewLink_AnyResultType(list, cand) ==
  /\ "link" \in DOMAIN cand
  /\ Truthy(cand["link"])
  /\ \A p \in Parsers :
        (\E t \in DOMAIN search_results[p] : search_results[p][t] = list) =>
          \A t \in DOMAIN search_results[p] : \A i \in DOMAIN search_results[p][t] :
            search_results[p][t][i]["link"] # cand["link"]

\* Lines 233-234: the candidate is appended.
IsNewLink(list, cand) ==
  /\ "link" \in DOMAIN cand
  /\ Truthy(cand["link"])
  /\ SameLink(list, cand) = {}

\* Lines 241-242: the candidate may fill in a missing visible link.
HasVisibleLink(cand) ==
  /\ "link" \in DOMAIN cand
  /\ Truthy(cand["link"])
  /\ "visible_link" \in DOMAIN cand
  /\ Truthy(cand["visible_link"])

\* Lines 244-245: e['visible_link'] of a record without that key is a KeyError.
VlinksKeyError(list, cand) ==
  \E i \in SameLink(list, cand) : "visible_link" \notin DOMAIN list[i]

vlinks(list, cand) ==
  {i \in SameLink(list, cand) : list[i]["visible_link"] = None}

\* A replacement that renumbers, and one that keeps the accepted record.
KeepRank_Renumbered(cand, vl) == WithRank(cand, vl["rank"] + 1)

KeepRank_KeepsRecord(cand, vl) == vl

\* Line 254: the candidate takes the rank of the record it replaces.
KeepRank(cand, vl) == WithRank(cand, vl["rank"])

\* Lines 233-258: what one candidate does to the list of its result type.
\* vl is vlinks[0], and list.index(vl) is the first record equal to it.
Decide(list, cand, rank) ==
  IF IsNewLink(list, cand)
  THEN [op |-> "append", list |-> Append(list, WithRank(cand, rank))]
  ELSE IF HasVisibleLink(cand) /\ ~VlinksKeyError(list, cand)
          /\ vlinks(list, cand) # {}
  THEN LET first == CHOOSE i \in vlinks(list, cand) :
                       \A j \in vlinks(list, cand) : i <= j
           index == CHOOSE i \in DOMAIN list :
                       /\ list[i] = list[first]
                       /\ \A j \in DOMAIN list : list[j] = list[first] => i <= j
       IN [op |-> "replace", list |-> [list EXCEPT ![index] = KeepRank(cand, list[first])]]
  ELSE IF HasVisibleLink(cand) /\ VlinksKeyError(list, cand)
  THEN [op |-> "KeyError", list |-> list]
  ELSE [op |-> "discard", list |-> list]

\* An earlier variant of p's result type runs p's query: p visits nodes the
\* parser has seen.
QueriedBefore(self, p) ==
  \E t \in Positions(self) : t[1] = p[1] /\ t[2] < p[2] /\ CssAt(self, t) = CssAt(self, p)

\* Lines 211-258: the loop body for the next candidate node of the running
\* variant. The values its field selectors yield are inputs, unless an earlier
\* variant read the same selector on the same node; two fields with the same
\* selector get the same value. On a node seen before, selectors not read
\* before find elements only while the documents' elements are within MaxNodes.
ForResult(self) ==
  /\ pc[self] = "loop"
  /\ res_i[self] < n_results[self]
  /\ LET selectors == selectors_(self)
         css == Css(selectors)
         keys == to_extract(selectors)
         node == res_i[self] + 1
         again == QueriedBefore(self, <<rt_i[self], sel_i[self]>>)
         Values(key) ==
           IF key \notin keys THEN {None}
           ELSE LET known == {m \in seen[self] : /\ m[1] = "value" /\ m[2] = css
                                                 /\ m[3] = selectors[key] /\ m[4] = node}
                IN IF known # {} THEN {m[5] : m \in known}
                   ELSE IF again /\ Left(self) <= 0 THEN {None}
                   ELSE FieldValues(cls[self], key)
         Unread(key) ==
           /\ key \in keys \cap ReadKeys
           /\ ~\E m \in seen[self] : /\ m[1] = "value" /\ m[2] = css
                                     /\ m[3] = selectors[key] /\ m[4] = node
     IN \E link \in Values("link"), visible_link \in Values("visible_link"),
           snippet \in Values("snippet"), title \in Values("title") :
        LET cand == [key \in keys |->
                              CASE key = "link" -> link
                                [] key = "visible_link" -> visible_link
                                [] key = "snippet" -> snippet
                                [] key = "title" -> title
                                [] OTHER -> <<"text">>]
            list == search_results[self][result_type(self)]
            decision == Decide(list, cand, current_rank[self])
        IN /\ \A k1 \in keys \cap ReadKeys, k2 \in keys \cap ReadKeys :
                selectors[k1] = selectors[k2] => cand[k1] = cand[k2]
           /\ search_results' =
                [search_results EXCEPT ![self][result_type(self)] = decision.list]
           /\ current_rank' =
                [current_rank EXCEPT ![self] = IF decision.op = "append" THEN @ + 1 ELSE @]
           /\ num_results' =
                [num_results EXCEPT ![self] = IF decision.op = "append" THEN @ + 1 ELSE @]
           /\ seen' = [seen EXCEPT ![self] =
                         IF QueriedAfter(self, <<rt_i[self], sel_i[self]>>)
                         THEN @ \cup {<<"value", css, selectors[key], node, cand[key]>> :
                                        key \in keys \cap ReadKeys}
                         ELSE @]
           /\ fresh' = [fresh EXCEPT ![self] =
                           IF again /\ \E key \in ReadKeys :
                                         Unread(key) /\ cand[key] # None
                           THEN @ + 1 ELSE @]
           /\ serp_result' = [serp_result EXCEPT ![self] = cand]
           /\ op' = [op EXCEPT ![self] = decision.op]
           /\ IF decision.op = "KeyError"
              THEN Raise(self, "KeyError")
              ELSE UNCHANGED <<pc, exc, calls, in_init>>
  /\ res_i' = [res_i EXCEPT ![self] = @ + 1]
  /\ UNCHANGED <<fcall, Config, cls, html, dom, query, searchtype, num_results_for_query,
                 effective_query, page_number, no_results, no_results_text,
                 rt_i, sel_i, n_results>>

\* ---------------------------------------------------------- after_parsing
\* The keys of search_results in the order the dict holds them: the order in
\* which _parse first assigned them, which is the schema's.
RECURSIVE KeysOf(_, _)
KeysOf(items, d) ==
  IF items = <<>> THEN <<>>
  ELSE (IF Head(items).result_type \in DOMAIN d THEN <<Head(items).result_type>> ELSE <<>>)
       \o KeysOf(Tail(items), d)

keys_(self) == KeysOf(selector_dict(self).items, search_results[self])

\* dict.get(key): None for a missing key.
Get(d, key) == IF key \in DOMAIN d THEN d[key] ELSE None

\* Parser.iter_serp_items over lists nobody changes meanwhile: the (key, i) of
\* every record with a link, in order.
RECURSIVE IndicesWithLink(_, _)
IndicesWithLink(list, i) ==
  IF i > Len(list) THEN <<>>
  ELSE (IF Truthy(list[i]["link"]) THEN <<i>> ELSE <<>>) \o IndicesWithLink(list, i + 1)

RECURSIVE iter_serp_items(_, _)
iter_serp_items(keys, d) ==
  IF keys = <<>> THEN <<>>
  ELSE LET is == IndicesWithLink(d[Head(keys)], 1)
       IN [n \in DOMAIN is |-> <<Head(keys), is[n]>>] \o iter_serp_items(Tail(keys), d)

\* A deletion that renumbers the records behind the deleted one.
Delete_Renumbering(list, i) ==
  [k \in 1..(Len(list) - 1) |->
     IF k < i THEN list[k] ELSE [list[k + 1] EXCEPT !["rank"] = @ - 1]]

\* del list[i]
Delete(list, i) == SubSeq(list, 1, i - 1) \o SubSeq(list, i + 1, Len(list))

\* GoogleParser.after_parsing, lines 509-515: the snippets are searched for the
\* query. A snippet that is None makes `in` raise TypeError.
RECURSIVE GoogleSnippets(_, _, _, _)
GoogleSnippets(items, d, q, nr) ==
  IF items = <<>> THEN [raised |-> FALSE, no_results |-> nr]
  ELSE LET r == d[Head(items)[1]][Head(items)[2]]
       IN IF "snippet" \in DOMAIN r /\ Truthy(q)
          THEN IF r["snippet"] = None THEN [raised |-> TRUE, no_results |-> nr]
               ELSE GoogleSnippets(Tail(items), d, q,
                                   IF Contains(r["snippet"], Remove(q, "\"")) THEN FALSE ELSE nr)
          ELSE GoogleSnippets(Tail(items), d, q, nr)

\* GoogleParser.after_parsing, lines 500-515
GoogleNoResults(self) ==
  LET by_count == ~(num_results[self] > 0)
      by_phrase == IF \/ Contains(html[self], <<"No results found for">>)
                      \/ Contains(html[self], <<"did not match any documents">>)
                   THEN TRUE ELSE by_count
  IN IF by_phrase
     THEN GoogleSnippets(iter_serp_items(keys_(self), search_results[self]),
                         search_results[self], query[self], by_phrase)
     ELSE [raised |-> FALSE, no_results |-> by_phrase]

\* Clean regexes that know the image pattern only.
GoogleCleanRegex_ImageOnly(st, link) == re_search("imgres?imgurl=", "&", link)

\* GoogleParser.after_parsing, lines 517-520: clean_regexes[self.searchtype]
GoogleCleanRegex(st, link) ==
  IF st = "normal" THEN re_search("/url?q=", "&sa=U&ei=", link)
  ELSE re_search("imgres?imgurl=", "&", link)

\* The visible link as it is behind 'http://'.
FromVisibleLink_Whole(visible_link) == <<"http://">> \o visible_link

\* The tail of lines 541-548: the visible link's first word behind 'http://'.
FromVisibleLink(visible_link) == <<"http://">> \o FirstWord(strip(visible_link))

\* GoogleParser.after_parsing, lines 523-548, for one record.
GoogleClean(r, st) ==
  LET result == GoogleCleanRegex(st, r["link"])
      link == IF result.matched THEN unquote(result.url) ELSE r["link"]
      actual_link == IF Head(link) \in HttpTokens THEN link ELSE <<"http://">> \o link
      use_visible == IF Truthy(link) THEN netloc(actual_link) = <<>> ELSE TRUE
      r1 == [r EXCEPT !["link"] = link]
  IN IF use_visible /\ Truthy(Get(r, "visible_link"))
     THEN [r1 EXCEPT !["visible_link"] = FromVisibleLink(r["visible_link"]),
                     !["link"] = FromVisibleLink(r["visible_link"])]
     ELSE r1

\* BaiduParser.after_parsing, lines 759-774, on one list. The generator of
\* iter_serp_items walks the live list: after `del list[i]` the record that
\* moved to position i is passed over.
RECURSIVE BaiduLoop(_, _)
BaiduLoop(list, i) ==
  IF i > Len(list) THEN list
  ELSE LET r == list[i]
       IN IF ~Truthy(r["link"]) THEN BaiduLoop(list, i + 1)
          ELSE IF ~(Truthy(r["title"]) \/ Truthy(r["snippet"]) \/ Truthy(r["visible_link"]))
          THEN BaiduLoop(Delete(list, i), i + 1)
          ELSE IF Truthy(r["visible_link"])
          THEN BaiduLoop([list EXCEPT ![i] =
                            [r EXCEPT !["visible_link"] = FromVisibleLink(r["visible_link"]),
                                      !["link"] = FromVisibleLink(r["visible_link"])]],
                         i + 1)
          ELSE BaiduLoop(list, i + 1)

\* YahooParser.after_parsing, lines 1041-1043, on one list: the same walk.
RECURSIVE YahooLoop(_, _)
YahooLoop(list, i) ==
  IF i > Len(list) THEN list
  ELSE IF Truthy(list[i]["link"]) /\ list[i]["visible_link"] = None
  THEN YahooLoop(Delete(list, i), i + 1)
  ELSE YahooLoop(list, i + 1)

\* The image-search link patterns of Yandex, Bing and Yahoo: the first
\* pattern that matches replaces the link by its group.
YandexImageLink(r) ==
  LET a == re_search("{\"href\":\"", "\"}", r["link"])
      b == re_search("img_url=", "&", r["link"])
  IN IF a.matched THEN [r EXCEPT !["link"] = a.url]
     ELSE IF b.matched THEN [r EXCEPT !["link"] = b.url]
     ELSE r

BingImageLink(r) ==
  LET a == re_search("imgurl:\"", "\"", r["link"])
  IN IF a.matched THEN [r EXCEPT !["link"] = a.url] ELSE r

YahooImageLink(r) ==
  LET a == re_search("&imgurl=", "&", r["link"])
  IN IF a.matched THEN [r EXCEPT !["link"] = <<"http://">> \o unquote(a.url)] ELSE r

\* The link cleaning of a class's after_parsing, on one record.
CleanLink(c, st, r) ==
  CASE c = "GoogleParser" -> GoogleClean(r, st)
    [] c = "YandexParser" -> YandexImageLink(r)
    [] c = "BingParser" -> BingImageLink(r)
    [] c = "YahooParser" -> YahooImageLink(r)

\* A loop `for key, i in self.iter_serp_items(): <clean record i>`: it deletes
\* nothing, and reaches every record with a link.
MapWithLink(d, c, st) ==
  [key \in DOMAIN d |->
     [i \in DOMAIN d[key] |->
        IF Truthy(d[key][i]["link"]) THEN CleanLink(c, st, d[key][i]) ELSE d[key][i]]]

\* What after_parsing makes of search_results when it runs to its end.
after_parsing_results(c, st, d) ==
  CASE c = "GoogleParser" -> MapWithLink(d, c, st)
    [] c = "BaiduParser" -> [key \in DOMAIN d |-> BaiduLoop(d[key], 1)]
    [] c \in {"YandexParser", "BingParser"} ->
         IF st = "image" THEN MapWithLink(d, c, st) ELSE d
    [] c = "YahooParser" ->
         IF st = "normal" THEN [key \in DOMAIN d |-> YahooLoop(d[key], 1)]
         ELSE IF st = "image" THEN MapWithLink(d, c, st)
         ELSE d
    [] OTHER -> d

\* What no after_parsing changes.
AfterParsingFrame(self) ==
  UNCHANGED <<fcall, Config, cls, html, dom, query, searchtype, num_results_for_query,
              num_results, effective_query, page_number, no_results_text, loopv, locals>>

\* Parser.after_parsing: nothing (Ask, Blekko, YouTube and the classes that
\* do not override it).
Parser_after_parsing(self) ==
  /\ pc[self] = "after_parsing"
  /\ cls[self] \in {"AskParser", "BlekkoParser", "YouTubeParser",
                    "YouTubeSponsoredParser", "CustomParser"}
  /\ Return(self)
  /\ UNCHANGED <<search_results, no_results>>
  /\ AfterParsingFrame(self)

GoogleParser_after_parsing(self) ==
  /\ pc[self] = "after_parsing"
  /\ cls[self] = "GoogleParser"
  /\ LET nr == IF searchtype[self] = "normal" THEN GoogleNoResults(self)
               ELSE [raised |-> FALSE, no_results |-> no_results[self]]
     IN /\ no_results' = [no_results EXCEPT ![self] = nr.no_results]
        /\ IF nr.raised
           THEN /\ Raise(self, "TypeError")
                /\ UNCHANGED search_results
           ELSE /\ Return(self)
                /\ search_results' =
                     [search_results EXCEPT
                        ![self] = after_parsing_results(cls[self], searchtype[self], @)]
  /\ AfterParsingFrame(self)

\* Line 776 compares self.search_engine, which __init__ set to '' (line 106),
\* with 'normal': lines 777-782 never run.
BaiduParser_after_parsing(self) ==
  /\ pc[self] = "after_parsing"
  /\ cls[self] = "BaiduParser"
  /\ search_results' =
       [search_results EXCEPT ![self] = after_parsing_results(cls[self], searchtype[self], @)]
  /\ Return(self)
  /\ UNCHANGED no_results
  /\ AfterParsingFrame(self)


YandexParser_after_parsing(self) ==
  /\ pc[self] = "after_parsing"
  /\ cls[self] = "YandexParser"
  /\ no_results' =
       [no_results EXCEPT ![self] =
          IF searchtype[self] # "normal" THEN @
          ELSE IF num_results[self] = 0 THEN TRUE
          ELSE IF Truthy(no_results_text[self])
          THEN Contains(no_results_text[self], YandexNothingFound)
          ELSE FALSE]
  /\ search_results' =
       [search_results EXCEPT ![self] = after_parsing_results(cls[self], searchtype[self], @)]
  /\ Return(self)
  /\ AfterParsingFrame(self)

BingParser_after_parsing(self) ==
  /\ pc[self] = "after_parsing"
  /\ cls[self] = "BingParser"
  /\ no_results' =
       [no_results EXCEPT ![self] =
          IF searchtype[self] # "normal" THEN @
          ELSE IF Truthy(no_results_text[self])
          THEN \/ Contains(no_results_text[self], query[self])
               \/ Contains(no_results_text[self], <<"Do you want results only for">>)
          ELSE FALSE]
  /\ search_results' =
       [search_results EXCEPT ![self] = after_parsing_results(cls[self], searchtype[self], @)]
  /\ Return(self)
  /\ AfterParsingFrame(self)

\* Whether the document has a #cquery element is an input.
YahooParser_after_parsing(self) ==
  /\ pc[self] = "after_parsing"
  /\ cls[self] = "YahooParser"
  /\ \E cquery \in BOOLEAN :
       no_results' =
         [no_results EXCEPT ![self] =
            IF searchtype[self] # "normal" THEN @
            ELSE num_results[self] = 0 \/ cquery]
  /\ search_results' =
       [search_results EXCEPT ![self] = after_parsing_results(cls[self], searchtype[self], @)]
  /\ Return(self)
  /\ AfterParsingFrame(self)

\* Lines 1094-1103: what the .no-results element says is overwritten by the count.
DuckduckgoParser_after_parsing(self) ==
  /\ pc[self] = "after_parsing"
  /\ cls[self] = "DuckduckgoParser"
  /\ no_results' =
       [no_results EXCEPT ![self] =
          IF searchtype[self] # "normal" THEN @ ELSE ~(num_results[self] > 0)]
  /\ Return(self)
  /\ UNCHANGED search_results
  /\ AfterParsingFrame(self)

Step(self) ==
  \/ Construct(self)
  \/ Parse(self)
  \/ ParseHead(self)
  \/ NextVariant(self)
  \/ ForResult(self)
  \/ EndLoop(self)
  \/ XPathOnNone(self)
  \/ Parser_after_parsing(self)
  \/ GoogleParser_after_parsing(self)
  \/ BaiduParser_after_parsing(self)
  \/ YandexParser_after_parsing(self)
  \/ BingParser_after_parsing(self)
  \/ YahooParser_after_parsing(self)
  \/ DuckduckgoParser_after_parsing(self)

Next == \E self \in {"p1"} : Step(self)

Spec == Init /\ [][Next]_vars

\* ------------------------------------------------------- concurrent calls
\* Two threads, each with a parser object of its own and a document of its own
\* of up to MaxConcurrentNodes elements, each making one parse call; their
\* steps interleave in any order.  Both objects are of the same class, one of
\* four engines, under a normal-search Config.
ConcurrentInit ==
  /\ Init
  /\ Config = "normal"
  /\ cls["p1"] \in {"BingParser", "YahooParser", "DuckduckgoParser", "AskParser"}

ConcurrentNext ==
  \E self \in Parsers :
    /\ Step(self)
    /\ calls'[self] <= 1
    /\ fresh'[self] <= MaxConcurrentNodes

ConcurrentSpec == ConcurrentInit /\ [][ConcurrentNext]_vars

\* ------------------------------------------- the functions of the module
\* str.startswith
startswith(s, prefix) == Len(s) >= Len(prefix) /\ SubSeq(s, 1, Len(prefix)) = prefix

ascii_uppercase == "ABCDEFGHIJKLMNOPQRSTUVWXYZ"
ascii_lowercase == "abcdefghijklmnopqrstuvwxyz"

\* str.lower
lower_char(ch) ==
  IF \E i \in 1..Len(ascii_uppercase) : SubSeq(ascii_uppercase, i, i) = ch
  THEN LET i == CHOOSE k \in 1..Len(ascii_uppercase) : SubSeq(ascii_uppercase, k, k) = ch
       IN SubSeq(ascii_lowercase, i, i)
  ELSE ch

RECURSIVE lower(_)
lower(s) == IF s = "" THEN "" ELSE lower_char(SubSeq(s, 1, 1)) \o lower(SubSeq(s, 2, Len(s)))

\* The patterns of get_parser_by_url, lines 1241-1255. Each is anchored at the
\* start of the url.
\* ^http[s]?://www\.google
GoogleUrl(url) == startswith(url, "http://www.google") \/ startswith(url, "https://www.google")

\* ^http://yandex\.ru
YandexUrl(url) == startswith(url, "http://yandex.ru")

\* ^http://www\.bing\.
BingUrl(url) == startswith(url, "http://www.bing.")

\* ^http[s]?://search\.yahoo. (the last dot is any character)
YahooUrl(url) ==
  \E prefix \in {"http://search.yahoo", "https://search.yahoo"} :
     startswith(url, prefix) /\ Len(url) > Len(prefix)

\* ^http://www\.baidu\.com
BaiduUrl(url) == startswith(url, "http://www.baidu.com")

\* ^https://duckduckgo\.com
DuckduckgoUrl(url) == startswith(url, "https://duckduckgo.com")

\* ^http[s]?://[a-z]{2}?\.ask: two lower-case letters before '.ask'
AskUrl(url) ==
  \E prefix \in {"http://", "https://"} :
     /\ startswith(url, prefix)
     /\ LET rest == SubSeq(url, Len(prefix) + 1, Len(url))
            IsLower(ch) ==
              \E i \in 1..Len(ascii_lowercase) : SubSeq(ascii_lowercase, i, i) = ch
        IN /\ Len(rest) >= 6
           /\ IsLower(SubSeq(rest, 1, 1)) /\ IsLower(SubSeq(rest, 2, 2))
           /\ SubSeq(rest, 3, 6) = ".ask"

\* A pattern for Blekko that lost its anchor.
BlekkoUrl_Unanchored(url) ==
  \E i \in 0..(Len(url) - Len("blekko")) : SubSeq(url, i + 1, i + Len("blekko")) = "blekko"

\* ^http[s]?://blekko
BlekkoUrl(url) == startswith(url, "http://blekko") \/ startswith(url, "https://blekko")

\* get_parser_by_url(url): an if/elif chain of six patterns, then two more
\* `if`s that overwrite what the chain chose.
get_parser_by_url(url) ==
  LET chain == IF GoogleUrl(url) THEN "GoogleParser"
               ELSE IF YandexUrl(url) THEN "YandexParser"
               ELSE IF BingUrl(url) THEN "BingParser"
               ELSE IF YahooUrl(url) THEN "YahooParser"
               ELSE IF BaiduUrl(url) THEN "BaiduParser"
               ELSE IF DuckduckgoUrl(url) THEN "DuckduckgoParser"
               ELSE "None"
      ask == IF AskUrl(url) THEN "AskParser" ELSE chain
      parser == IF BlekkoUrl(url) THEN "BlekkoParser" ELSE ask
  IN IF parser = "None" THEN [done |-> TRUE, raised |-> TRUE, value |-> "UnknowUrlException"]
     ELSE [done |-> TRUE, raised |-> FALSE, value |-> parser]

\* is_this_search_engine(search_engine, matching_search_engines)
is_this_search_engine(search_engine, matching_search_engines) ==
  lower(search_engine) \in {lower(s) : s \in Range(matching_search_engines)}

\* get_parser_by_search_engine(search_engine)
get_parser_by_search_engine(search_engine) ==
  LET found(c) == [done |-> TRUE, raised |-> FALSE, value |-> c]
  IN IF is_this_search_engine(search_engine, <<"google", "googleimg">>) THEN found("GoogleParser")
     ELSE IF search_engine = "baidu" \/ search_engine = "baiduimg" THEN found("BaiduParser")
     ELSE IF is_this_search_engine(search_engine, <<"yandex">>) THEN found("YandexParser")
     ELSE IF is_this_search_engine(search_engine, <<"bing">>) THEN found("BingParser")
     ELSE IF is_this_search_engine(search_engine, <<"yahoo">>) THEN found("YahooParser")
     ELSE IF is_this_search_engine(search_engine, <<"duckduckgo">>) THEN found("DuckduckgoParser")
     ELSE IF is_this_search_engine(search_engine, <<"ask">>) THEN found("AskParser")
     ELSE IF is_this_search_engine(search_engine, <<"blekko">>) THEN found("BlekkoParser")
     ELSE IF is_this_search_engine(search_engine, <<"youtube">>) THEN found("YouTubeParser")
     ELSE IF is_this_search_engine(search_engine, <<"youtube_sponsored">>)
     THEN found("YouTubeSponsoredParser")
     ELSE [done |-> TRUE, raised |-> TRUE, value |-> "NoParserForSearchEngineException"]

\* The arguments the functions are called with.
\* Selector lists of up to MaxSelectors selectors, some of them '', with what
\* advanced_css returns for each on the element (None, '', or a text).
FirstMatchCalls ==
  LET SelectorLists == UNION {[1..n -> {"", "a::text"}] : n \in 0..MaxSelectors}
      SelectorValues == {None, <<>>, <<"x">>, <<"y">>}
  IN UNION {[selectors : {s}, element : {Dom, None}, values : [DOMAIN s -> SelectorValues]] :
              s \in SelectorLists}

Urls ==
  {"", "www.google.com",
   "http://www.google.com/search?q=a", "https://www.google.de/search?q=a",
   "http://www.google.com/search?q=blekko", "http://google.com/search?q=a",
   "ftp://www.google.com/", "http://example.com/?u=http://www.google.com",
   "http://yandex.ru/yandsearch?text=a", "https://yandex.ru/yandsearch?text=a",
   "http://www.bing.com/search?q=a", "https://www.bing.com/search?q=a",
   "http://www.bingo.com/", "http://search.yahoo.com/search?p=a",
   "https://search.yahoo.com/search?p=a", "https://search.yahoo",
   "http://www.baidu.com/s?wd=a", "http://www.baidu.cn/s?wd=a",
   "https://duckduckgo.com/?q=a", "http://duckduckgo.com/?q=a",
   "http://uk.ask.com/web?q=a", "https://de.ask.com/web?q=a", "http://www.ask.com/web?q=a",
   "http://UK.ask.com/web?q=a", "http://uk.ask", "http://uk-ask.com/",
   "http://blekko.com/ws/?q=a", "https://blekko.com/ws/?q=a", "http://www.blekko.com/",
   "http://www.youtube.com/results?search_query=a"}

SearchEngines ==
  {"google", "Google", "GOOGLE", "googleimg", "GoogleImg", "baidu", "Baidu", "BAIDU",
   "baiduimg", "BaiduImg", "yandex", "Yandex", "bing", "Bing", "BING", "yahoo", "Yahoo",
   "duckduckgo", "DuckDuckGo", "ask", "Ask", "blekko", "Blekko", "youtube", "YouTube",
   "youtube_sponsored", "YouTube_Sponsored", "", "goo", "googles", "altavista",
   "google.com", "youtube-sponsored"}

\* A function of the module is about to be called; no parser object is used.
FunctionInit ==
  /\ NoObject
  /\ Config = "normal"
  /\ cls = [p \in Parsers |-> "GoogleParser"]
  /\ fn \in {"first_match", "get_parser_by_url", "get_parser_by_search_engine"}
  /\ arg \in CASE fn = "first_match" -> FirstMatchCalls
             [] fn = "get_parser_by_url" -> Urls
             [] fn = "get_parser_by_search_engine" -> SearchEngines
  /\ ret = [done |-> FALSE]

Call_first_match ==
  /\ fn = "first_match"
  /\ ~ret.done
  /\ ret' = [done |-> TRUE] @@ first_match(arg.selectors, arg.element, arg.values)
  /\ UNCHANGED <<fn, arg, Config, cls, ctl, attrs, loopv, locals>>

Call_get_parser_by_url ==
  /\ fn = "get_parser_by_url"
  /\ ~ret.done
  /\ ret' = get_parser_by_url(arg)
  /\ UNCHANGED <<fn, arg, Config, cls, ctl, attrs, loopv, locals>>

Call_get_parser_by_search_engine ==
  /\ fn = "get_parser_by_search_engine"
  /\ ~ret.done
  /\ ret' = get_parser_by_search_engine(arg)
  /\ UNCHANGED <<fn, arg, Config, cls, ctl, attrs, loopv, locals>>

FunctionNext ==
  \/ Call_first_match
  \/ Call_get_parser_by_url
  \/ Call_get_parser_by_search_engine

FunctionSpec == FunctionInit /\ [][FunctionNext]_vars

\* --------------------------------------------------------------- database
\* SearchEngineResultsPage.set_values_from_parser: one Link per record of
\* every list of parser.search_results, so this is len(serp.links).
RECURSIVE len_links(_, _)
len_links(results, keys) ==
  IF keys = {} THEN 0
  ELSE LET key == CHOOSE k \in keys : TRUE
       IN Len(results[key]) + len_links(results, keys \ {key})

\* SearchEngineResultsPage.set_values_from_parser(parser): the columns of the
\* serp row (lines 114-117).
set_values_from_parser(self) ==
  [num_results_for_query |-> str(num_results_for_query[self]),
   num_results |-> num_results[self],
   effective_query |-> str(effective_query[self]),
   no_results |-> no_results[self]]

\* SearchEngineResultsPage.has_no_results_for_query, as a truth value.
has_no_results_for_query(serp) == serp.num_results = 0 \/ Truthy(serp.effective_query)

\* ----------------------------------------------------------------- claims
\* The lists of the parser, and the states of a call.
Lists(self) == DOMAIN search_results[self]

Links(self) == len_links(search_results[self], Lists(self))

Extracting(self) == pc[self] \in {"loop", "after_parsing"}

\* The result types the running call has given a list.
Entered(self) ==
  IF pc[self] = "after_parsing" THEN Lists(self)
  ELSE {selector_dict(self).items[r].result_type : r \in 1..rt_i[self]}

CallEnded(self) == pc[self] \in {"idle", "failed"} /\ calls[self] >= 1

Returned(self) == pc[self] = "idle" /\ exc[self] = "none" /\ calls[self] >= 1

\* The step of the loop body for one candidate.
CandidateStep(self) == pc[self] = "loop" /\ res_i'[self] = res_i[self] + 1

\* The records the candidate of the step could replace: same link, null visible_link.
Replaceable(self) ==
  LET old == search_results[self][result_type(self)]
      cand == serp_result'[self]
  IN IF HasVisibleLink(cand)
     THEN {i \in DOMAIN old : /\ old[i]["link"] = cand["link"]
                              /\ "visible_link" \in DOMAIN old[i]
                              /\ old[i]["visible_link"] = None}
     ELSE {}

\* C1: after extraction, in every result type the record at position p has
\* rank p, so the ranks are 1..count(accepted) in sequence order.
C1_RanksArePositions ==
  \A self \in Parsers :
    pc[self] = "after_parsing" =>
      \A key \in Lists(self) :
        \A p \in DOMAIN search_results[self][key] :
          search_results[self][key][p]["rank"] = p

\* C2: at every step of the extraction loop no two records of the list of one
\* result type have the same link.
C2_NoSharedLink ==
  \A self \in Parsers :
    Extracting(self) =>
      \A key \in Entered(self) :
        \A i, j \in DOMAIN search_results[self][key] :
          search_results[self][key][i]["link"] = search_results[self][key][j]["link"]
            => i = j

\* C2's case: a candidate whose link an accepted record has was turned away.
C2_Witness ==
  \E self \in Parsers :
    /\ pc[self] = "loop"
    /\ op[self] = "discard"
    /\ "link" \in DOMAIN serp_result[self]
    /\ Truthy(serp_result[self]["link"])
    /\ \E i \in DOMAIN search_results[self][result_type(self)] :
         search_results[self][result_type(self)][i]["link"] = serp_result[self]["link"]

\* C3: in every state no record of results has a null or empty link, after the
\* engine's normalization too.
C3_NoEmptyLink ==
  \A self \in Parsers :
    \A key \in Lists(self) :
      \A i \in DOMAIN search_results[self][key] :
        Truthy(search_results[self][key][i]["link"])

\* C4: a replace step leaves the length of the sequence, the position and the
\* rank of the replaced record, every other record of results and num_results
\* as they were.
C4_ReplaceFrame ==
  [][\A self \in Parsers :
       (CandidateStep(self) /\ Replaceable(self) # {}) =>
         LET key == result_type(self)
             old == search_results[self]
             new == search_results'[self]
         IN /\ DOMAIN new = DOMAIN old
            /\ \A k \in DOMAIN old \ {key} : new[k] = old[k]
            /\ Len(new[key]) = Len(old[key])
            /\ \E i \in Replaceable(self) :
                 /\ new[key][i]["link"] = old[key][i]["link"]
                 /\ new[key][i]["rank"] = old[key][i]["rank"]
                 /\ \A j \in DOMAIN old[key] \ {i} : new[key][j] = old[key][j]
            /\ num_results'[self] = num_results[self]]_vars

\* C4's case: a record was replaced in a list that holds other records.
C4_Witness ==
  \E self \in Parsers :
    /\ pc[self] = "loop"
    /\ op[self] = "replace"
    /\ Len(search_results[self][result_type(self)]) >= 2

\* C5: when a candidate with a visible_link follows a candidate with the same
\* link and no visible_link in its result type, the sequence holds one record
\* for the link, with the rank of the first and the visible_link of the second.
C5_ReplaceKeepsRankTakesVisibleLink ==
  [][\A self \in Parsers :
       (CandidateStep(self) /\ Replaceable(self) # {}) =>
         LET old == search_results[self][result_type(self)]
             new == search_results'[self][result_type(self)]
             cand == serp_result'[self]
         IN \E i \in Replaceable(self) :
              /\ {j \in DOMAIN new : new[j]["link"] = cand["link"]} = {i}
              /\ new[i]["rank"] = old[i]["rank"]
              /\ new[i]["visible_link"] = cand["visible_link"]]_vars

\* C5's case: the record of rank 1 has taken the visible_link of a later
\* candidate with its link.
C5_Witness ==
  \E self \in Parsers :
    /\ pc[self] = "loop"
    /\ op[self] = "replace"
    /\ \E i \in DOMAIN search_results[self][result_type(self)] :
         LET r == search_results[self][result_type(self)][i]
         IN /\ r["link"] = serp_result[self]["link"]
            /\ r["visible_link"] = serp_result[self]["visible_link"]
            /\ r["rank"] = 1

\* C6: when the first parse call has returned, after normalization, num_results
\* is the number of records in results, the Links set_values_from_parser makes.
C6_NumResultsIsLinks ==
  \A self \in Parsers :
    (Returned(self) /\ calls[self] = 1) => num_results[self] = Links(self)

\* C7: in every parse call on a parser object, num_results at the end of
\* extraction counts the records that call accepted; nothing is carried over
\* from an earlier call.
C7_OnlyLatestCall ==
  \A self \in Parsers :
    pc[self] = "after_parsing" => num_results[self] = Links(self)

\* C8: a parse call on HTML that cannot be parsed (dom stays None) does not
\* raise, and ends with every list empty, num_results 0, page_number -1 and
\* effective_query and num_results_for_query at their defaults.
C8_UnparsableCompletes ==
  \A self \in Parsers :
    (CallEnded(self) /\ html[self] # None /\ ~Parsable(html[self]) /\ dom[self] = None) =>
      /\ exc[self] = "none"
      /\ Links(self) = 0
      /\ num_results[self] = 0
      /\ page_number[self] = 0 - 1
      /\ effective_query[self] = <<>>
      /\ num_results_for_query[self] = <<>>

\* C9: the first parse call of a parser whose schema for the search type is
\* missing, empty or not a mapping raises InvalidSearchTypeException and
\* leaves results empty and num_results 0 (stated for a document that parsed).
C9_BadSchemaRaises ==
  \A self \in Parsers :
    ( /\ CallEnded(self) /\ calls[self] = 1 /\ dom[self] # None
      /\ \/ selector_dict(self).type # "dict"
         \/ selector_dict(self).items = <<>> ) =>
      /\ exc[self] = "InvalidSearchTypeException"
      /\ search_results[self] = <<>>
      /\ num_results[self] = 0

\* C10: when the declared search type is not among the class's search_types,
\* the constructor fails with AssertionError before a document is parsed or a
\* node visited, and leaves no parser object.
C10_UnsupportedTypeAsserts ==
  \A self \in Parsers :
    (pc[self] # "new" /\ Config \notin Range(search_types(cls[self]))) =>
      /\ pc[self] = "failed"
      /\ exc[self] = "AssertionError"
      /\ calls[self] = 0
      /\ dom[self] = None
      /\ fresh[self] = 0

\* C10's case: a constructor call with an unsupported search type has failed.
C10_Witness ==
  \E self \in Parsers :
    /\ pc[self] = "failed"
    /\ exc[self] = "AssertionError"
    /\ Config \notin Range(search_types(cls[self]))

\* C10 as the specification words it: the failure is the configuration error,
\* InvalidSearchTypeException.
C10_UnsupportedTypeIsConfigurationError ==
  \A self \in Parsers :
    (pc[self] # "new" /\ Config \notin Range(search_types(cls[self]))) =>
      /\ pc[self] = "failed"
      /\ exc[self] = "InvalidSearchTypeException"
      /\ calls[self] = 0

\* C11: once a parse call has run the page-level selectors, page_number is
\* the integer a page-number text spells, or -1; it is -1 for a class that
\* declares no page-number selector that can match.
C11_PageNumberOrMinusOne ==
  \A self \in Parsers :
    (Extracting(self) \/ Returned(self)) =>
      /\ \/ page_number[self] = 0 - 1
         \/ \E v \in PageValues("page_number") \ {None} :
              ~int(v).raised /\ page_number[self] = int(v).value
      /\ (\A i \in DOMAIN page_number_selectors(cls[self]) :
            page_number_selectors(cls[self])[i] = "") => page_number[self] = 0 - 1

\* C12: on an element, first_match returns the value of the first selector by
\* position that is not '' and yields a non-empty value, and False when there
\* is none (the empty list included); it does not raise.
C12_FirstMatchIsFirstHit ==
  (fn = "first_match" /\ ret.done /\ arg.element # None) =>
    LET hits == {i \in DOMAIN arg.selectors :
                   arg.selectors[i] # "" /\ Truthy(arg.values[i])}
    IN /\ ~ret.raised
       /\ IF hits = {} THEN ret.value = False
          ELSE \E i \in hits : /\ \A j \in hits : i <= j
                               /\ ret.value = arg.values[i]

\* C12's case: an empty selector with a value, a selector that yields '', and
\* then the selector whose value is returned.
C12_Witness ==
  /\ fn = "first_match" /\ ret.done /\ arg.element # None
  /\ arg.selectors = <<"", "a::text", "a::text">>
  /\ arg.values = <<<<"x">>, <<>>, <<"y">>>>
  /\ ret.value = <<"y">>

\* The identifiers and aliases of get_parser_by_search_engine, with the class
\* each selects.
ParserOfIdentifier ==
  [k \in {"google", "googleimg", "baidu", "baiduimg", "yandex", "bing", "yahoo",
          "duckduckgo", "ask", "blekko", "youtube", "youtube_sponsored"} |->
     CASE k \in {"google", "googleimg"} -> "GoogleParser"
       [] k \in {"baidu", "baiduimg"} -> "BaiduParser"
       [] k = "yandex" -> "YandexParser"
       [] k = "bing" -> "BingParser"
       [] k = "yahoo" -> "YahooParser"
       [] k = "duckduckgo" -> "DuckduckgoParser"
       [] k = "ask" -> "AskParser"
       [] k = "blekko" -> "BlekkoParser"
       [] k = "youtube" -> "YouTubeParser"
       [] k = "youtube_sponsored" -> "YouTubeSponsoredParser"]

\* C18: get_parser_by_search_engine returns, for a name that is a known
\* identifier or alias in any letter case, the parser of the lower-case
\* identifier, and raises NoParserForSearchEngineException for any other name.
C18_AnyLetterCase ==
  (fn = "get_parser_by_search_engine" /\ ret.done) =>
    IF lower(arg) \in DOMAIN ParserOfIdentifier
    THEN ~ret.raised /\ ret.value = ParserOfIdentifier[lower(arg)]
    ELSE ret.raised /\ ret.value = "NoParserForSearchEngineException"

\* The branches of get_parser_by_url in source order: the class, and whether
\* the branch's pattern matches.
UrlBranches ==
  <<"GoogleParser", "YandexParser", "BingParser", "YahooParser", "BaiduParser",
    "DuckduckgoParser", "AskParser", "BlekkoParser">>

UrlMatches(i, url) ==
  CASE i = 1 -> GoogleUrl(url)
    [] i = 2 -> YandexUrl(url)
    [] i = 3 -> BingUrl(url)
    [] i = 4 -> YahooUrl(url)
    [] i = 5 -> BaiduUrl(url)
    [] i = 6 -> DuckduckgoUrl(url)
    [] i = 7 -> AskUrl(url)
    [] i = 8 -> BlekkoUrl(url)

\* C19: get_parser_by_url returns the parser of the first branch, in source
\* order, whose pattern matches the url, and raises UnknowUrlException when no
\* pattern matches.
C19_FirstPatternWins ==
  (fn = "get_parser_by_url" /\ ret.done) =>
    LET ms == {i \in DOMAIN UrlBranches : UrlMatches(i, arg)}
    IN IF ms = {} THEN ret.raised /\ ret.value = "UnknowUrlException"
       ELSE \E i \in ms : /\ \A j \in ms : i <= j
                          /\ ~ret.raised
                          /\ ret.value = UrlBranches[i]

\* C19's case: a url that only a pattern behind the elif chain matches.
C19_Witness ==
  /\ fn = "get_parser_by_url" /\ ret.done
  /\ arg = "http://uk.ask.com/web?q=a"
  /\ ~GoogleUrl(arg) /\ AskUrl(arg)
  /\ ret.value = "AskParser"

\* C13: when a parse call has returned, a Baidu parser holds no record whose
\* title, snippet and visible_link are all empty, and a Yahoo parser of a
\* normal search holds no record whose visible_link is None.
C13_PruningComplete ==
  \A self \in Parsers :
    Returned(self) =>
      \A key \in Lists(self) :
        \A i \in DOMAIN search_results[self][key] :
          LET r == search_results[self][key][i]
          IN /\ cls[self] = "BaiduParser" =>
                  \/ Truthy(Get(r, "title"))
                  \/ Truthy(Get(r, "snippet"))
                  \/ Truthy(Get(r, "visible_link"))
             /\ (cls[self] = "YahooParser" /\ searchtype[self] = "normal") =>
                  Get(r, "visible_link") # None

\* The record new is the record old, but for what normalization rewrites: its
\* link and visible_link.
SameRecord(old, new) ==
  /\ DOMAIN new = DOMAIN old
  /\ \A k \in DOMAIN old \ {"link", "visible_link"} : new[k] = old[k]

\* The list new is made of records of the list old, in the order of old.
Survivors(old, new) ==
  \E f \in [DOMAIN new -> DOMAIN old] :
    /\ \A i, j \in DOMAIN new : i < j => f[i] < f[j]
    /\ \A i \in DOMAIN new : SameRecord(old[f[i]], new[i])

\* C14: a step of after_parsing, for every engine, keeps the result types of
\* search_results, and each list afterwards holds records of the list before
\* it, in the same order and with the same ranks: no record is added, none is
\* renumbered, none moves.
C14_NormalizationFrame ==
  [][\A self \in Parsers :
       pc[self] = "after_parsing" =>
         /\ DOMAIN search_results'[self] = DOMAIN search_results[self]
         /\ \A key \in DOMAIN search_results[self] :
              Survivors(search_results[self][key], search_results'[self][key])]_vars

\* C14's case: normalization has deleted the record of rank 1 and the record
\* of rank 2 is still there, with its rank.
C14_Witness ==
  \E self \in Parsers :
    /\ Returned(self)
    /\ cls[self] \in {"BaiduParser", "YahooParser"}
    /\ \E key \in Lists(self) :
         /\ Len(search_results[self][key]) = 1
         /\ search_results[self][key][1]["rank"] = 2

\* C15: for Google, Bing and Yahoo, normalizing the results of an extraction
\* twice gives the same lists, links and visible links as normalizing them once.
C15_NormalizationIdempotent ==
  \A self \in Parsers :
    (pc[self] = "after_parsing" /\ cls[self] \in {"GoogleParser", "BingParser", "YahooParser"}) =>
      LET once == after_parsing_results(cls[self], searchtype[self], search_results[self])
      IN after_parsing_results(cls[self], searchtype[self], once) = once

\* A step in which GoogleParser.after_parsing runs to its end on a normal search.
GoogleNormalized(self) ==
  /\ pc[self] = "after_parsing"
  /\ cls[self] = "GoogleParser"
  /\ searchtype[self] = "normal"
  /\ exc'[self] = "none"

\* The link of a record with the redirect wrapper taken off and the percent
\* escapes decoded; the link itself when it has no wrapper.
Unwrapped(link) ==
  LET m == re_search("/url?q=", "&sa=U&ei=", link)
  IN IF m.matched THEN unquote(m.url) ELSE link

\* Lines 530-537: the link has no host (it is empty, or urlparse finds no
\* netloc in it behind a scheme).
NoHost(link) ==
  IF link = <<>> THEN TRUE
  ELSE netloc(IF Head(link) \in HttpTokens THEN link ELSE <<"http://">> \o link) = <<>>

\* Line 539: the visible-link fallback applies to the record.
FallbackApplies(r) == NoHost(Unwrapped(r["link"])) /\ Truthy(Get(r, "visible_link"))

C17_VisibleLinkFallback ==
  [][\A self \in Parsers :
       GoogleNormalized(self) =>
         \A key \in DOMAIN search_results[self] :
           \A i \in DOMAIN search_results[self][key] :
             LET r == search_results[self][key][i]
                 n == search_results'[self][key][i]
                 fallback == <<"http://">> \o FirstWord(strip(Get(r, "visible_link")))
             IN /\ FallbackApplies(r) =>
                     n["visible_link"] = fallback /\ n["link"] = fallback
                /\ ~NoHost(Unwrapped(r["link"])) =>
                     /\ n["link"] = Unwrapped(r["link"])
                     /\ Get(n, "visible_link") = Get(r, "visible_link")]_vars

\* C17's case: a record whose link had no host took the link from its cite
\* text ' a.com Cached'.
C17_Witness ==
  \E self \in Parsers :
    /\ Returned(self)
    /\ cls[self] = "GoogleParser"
    /\ \E key \in Lists(self) :
         \E i \in DOMAIN search_results[self][key] :
           /\ search_results[self][key][i]["visible_link"] = <<"http://", "a.com">>
           /\ search_results[self][key][i]["link"] = <<"http://", "a.com">>

\* The result types the loops of _parse pass in a step without a candidate
\* node: no layout variant of theirs matched a node of the document.
PassedTypes(self) ==
  LET items == selector_dict(self).items
      last == IF pc'[self] = "after_parsing" THEN Len(items) ELSE rt_i'[self] - 1
  IN {items[r].result_type : r \in (rt_i[self] + 1)..last}

\* C20: a result type none of whose layout variants matches a candidate node
\* gets an empty list in search_results, and passing it leaves num_results as
\* it is; when extraction ends every result type of the schema has its list.
C20_EmptyTypePresent ==
  [][\A self \in Parsers :
       (pc[self] = "loop" /\ dom[self] # None) =>
         /\ \A key \in PassedTypes(self) :
              /\ key \in DOMAIN search_results'[self]
              /\ search_results'[self][key] = <<>>
         /\ PassedTypes(self) # {} => num_results'[self] = num_results[self]
         /\ pc'[self] = "after_parsing" =>
              \A r \in DOMAIN selector_dict(self).items :
                selector_dict(self).items[r].result_type \in DOMAIN search_results'[self]]_vars

\* C20's case: extraction has ended with records in one result type and an
\* empty list for another.
C20_Witness ==
  \E self \in Parsers :
    /\ pc[self] = "after_parsing"
    /\ \E k1 \in Lists(self), k2 \in Lists(self) :
         /\ search_results[self][k1] = <<>>
         /\ search_results[self][k2] # <<>>
    /\ num_results[self] = Links(self)

\* C21: when no effective-query selector matched (first_match gave False),
\* the serp row made from the parser has effective_query '', and
\* has_no_results_for_query is true exactly when num_results is 0 or the
\* engine substituted a query.
C21_NoEffectiveQueryIsEmpty ==
  \A self \in Parsers :
    Returned(self) =>
      LET serp == set_values_from_parser(self)
      IN /\ effective_query[self] = False => serp.effective_query = <<>>
         /\ has_no_results_for_query(serp) <=>
              (num_results[self] = 0 \/ Truthy(effective_query[self]))

\* C22: a parse call of an engine's parser with a search type the engine
\* lists in search_types finds a non-empty schema and does not raise
\* InvalidSearchTypeException.
C22_SupportedTypeHasSchema ==
  \A self \in Parsers :
    ( /\ cls[self] \in Engines
      /\ CallEnded(self)
      /\ searchtype[self] \in Range(search_types(cls[self])) ) =>
      /\ DictTruthy(selector_dict(self))
      /\ exc[self] # "InvalidSearchTypeException"

\* The attributes of one parser object and the position of its call.
ObjectState(p) ==
  <<cls[p], pc[p], exc[p], calls[p], in_init[p], html[p], dom[p], query[p],
    searchtype[p], search_results[p], num_results_for_query[p], num_results[p],
    effective_query[p], page_number[p], no_results[p], no_results_text[p],
    rt_i[p], sel_i[p], res_i[p], n_results[p], current_rank[p], serp_result[p],
    op[p]>>

\* C23: two parse calls on distinct parser objects do not interfere, whatever
\* the interleaving of their steps: a step of one call leaves every attribute
\* of the other object as it was, and whether a candidate is appended depends
\* on the records of its own object only (a candidate with a link that its own
\* list of the result type does not hold is appended with the running rank,
\* even when the other object holds a record with that link).
C23_NoInterference ==
  [][\A p \in Parsers :
       /\ ObjectState(p)' # ObjectState(p) =>
            \A q \in Parsers \ {p} : ObjectState(q)' = ObjectState(q)
       /\ ( /\ CandidateStep(p)
            /\ "link" \in DOMAIN serp_result'[p]
            /\ Truthy(serp_result'[p]["link"])
            /\ \A i \in DOMAIN search_results[p][result_type(p)] :
                 search_results[p][result_type(p)][i]["link"] # serp_result'[p]["link"] )
          => /\ search_results'[p][result_type(p)] =
                  Append(search_results[p][result_type(p)],
                         Put(serp_result'[p], "rank", current_rank[p]))
             /\ num_results'[p] = num_results[p] + 1]_vars

\* Both calls have returned and each object holds a record with the same link.
C23_Witness ==
  /\ \A p \in Parsers : Returned(p) /\ num_results[p] >= 1
  /\ \E t1 \in Lists("p1"), t2 \in Lists("p2") :
       \E i \in DOMAIN search_results["p1"][t1], j \in DOMAIN search_results["p2"][t2] :
         search_results["p1"][t1][i]["link"] = search_results["p2"][t2][j]["link"]

\* C24: in the outcome of a call that returned, after normalization, no two
\* records of one result type have the same link.
C24_NoSharedLinkAfterNormalization ==
  \A self \in Parsers :
    Returned(self) =>
      \A key \in Lists(self) :
        \A i \in DOMAIN search_results[self][key], j \in DOMAIN search_results[self][key] :
          i # j => search_results[self][key][i]["link"] # search_results[self][key][j]["link"]

\* C25: a normal-search parse call of an engine's parser that returned having
\* accepted no record has no_results = True.
C25_ZeroRecordsIsNoResults ==
  \A self \in Parsers :
    ( /\ cls[self] \in Engines
      /\ Returned(self)
      /\ searchtype[self] = "normal"
      /\ num_results[self] <= 0 )
    => no_results[self] = TRUE

\* C26: for Google normal search, no_results after a call that returned is
\* False when num_results > 0 and neither marker phrase is in the raw HTML;
\* otherwise it is True, unless the query is not empty and the snippet of some
\* accepted record contains the query without its double quotes, and then it
\* is False.
C26_GoogleNoResults ==
  \A self \in Parsers :
    (cls[self] = "GoogleParser" /\ Returned(self) /\ searchtype[self] = "normal") =>
      LET phrase == \/ Contains(html[self], <<"No results found for">>)
                    \/ Contains(html[self], <<"did not match any documents">>)
          unquoted == SelectSeq(query[self], LAMBDA t : t # "\"")
          retracted ==
            /\ query[self] # <<>>
            /\ \E key \in Lists(self) : \E i \in DOMAIN search_results[self][key] :
                 /\ "snippet" \in DOMAIN search_results[self][key][i]
                 /\ Contains(search_results[self][key][i]["snippet"], unquoted)
      IN no_results[self] = IF num_results[self] > 0 /\ ~phrase THEN FALSE ELSE ~retracted

\* A Google call on a page with a marker phrase returned with no_results
\* retracted: a snippet holds the query, which was given in double quotes.
C26_Witness ==
  \E self \in Parsers :
    /\ cls[self] = "GoogleParser" /\ Returned(self) /\ searchtype[self] = "normal"
    /\ Contains(html[self], <<"did not match any documents">>)
    /\ Contains(query[self], <<"\"">>)
    /\ num_results[self] > 0
    /\ no_results[self] = FALSE

\* C27: a step that discards its candidate (the link is None or empty, or an
\* accepted record of the same result type has the link and the candidate
\* cannot fill in a missing visible link) leaves search_results, every rank,
\* the rank counter and num_results as they were; a candidate whose link is
\* held only by a record of a different result type is appended.
C27_DiscardFrame ==
  [][\A p \in Parsers :
       CandidateStep(p) =>
         LET cand == serp_result'[p]
             list == search_results[p][result_type(p)]
             linked == "link" \in DOMAIN cand /\ Truthy(cand["link"])
             dup == \E i \in DOMAIN list : list[i]["link"] = cand["link"]
             elsewhere ==
               \E t \in Lists(p) \ {result_type(p)} :
                 \E i \in DOMAIN search_results[p][t] :
                   search_results[p][t][i]["link"] = cand["link"]
         IN /\ (~linked \/ (dup /\ Replaceable(p) = {})) =>
                 /\ search_results'[p] = search_results[p]
                 /\ num_results'[p] = num_results[p]
                 /\ current_rank'[p] = current_rank[p]
            /\ (linked /\ ~dup /\ elsewhere) =>
                 /\ search_results'[p][result_type(p)] =
                      Append(list, Put(cand, "rank", current_rank[p]))
                 /\ num_results'[p] = num_results[p] + 1]_vars

\* A candidate was appended whose link a record of another result type has.
C27_Witness ==
  \E p \in Parsers :
    /\ pc[p] = "loop"
    /\ op[p] = "append"
    /\ \E t \in Lists(p) \ {result_type(p)} :
         \E i \in DOMAIN search_results[p][t] :
           search_results[p][t][i]["link"] = serp_result[p]["link"]

\* C28: a parse call of an engine's parser on a document that parsed, with a
\* schema for the search type, ends without raising, whatever values the
\* field selectors yield (None included).
C28_SelectorMissNeverRaises ==
  \A self \in Parsers :
    ( /\ cls[self] \in Engines
      /\ CallEnded(self)
      /\ dom[self] # None
      /\ DictTruthy(selector_dict(self)) )
    => exc[self] = "none"

\* C29: the rank counter restarts at 1 with every layout variant, and the
\* records the running variant has appended, which are the last
\* current_rank - 1 records of the list of its result type, have the ranks
\* 1, 2, ..., k in the order of their nodes: an appended record's rank is one
\* more than the number of records the variant appended before it.
C29_RankWithinVariant ==
  [][\A p \in Parsers :
       /\ ( /\ pc[p] = "loop" /\ pc'[p] = "loop"
            /\ <<rt_i'[p], sel_i'[p]>> # <<rt_i[p], sel_i[p]>> )
          => current_rank'[p] = 1
       /\ (pc'[p] = "loop" /\ rt_i'[p] >= 1) =>
            LET list == search_results'[p][result_type(p)']
                k == current_rank'[p] - 1
            IN /\ k >= 0
               /\ k <= Len(list)
               /\ \A j \in 1..k : list[Len(list) - k + j]["rank"] = j]_vars

\* The running variant has appended two records.
C29_Witness ==
  \E p \in Parsers :
    /\ pc[p] = "loop" /\ rt_i[p] >= 1
    /\ current_rank[p] = 3
    /\ Len(search_results[p][result_type(p)]) = 2

\* C30: after a Baidu call returned, every record with a non-empty
\* visible_link has link equal to visible_link, and the value is 'http://'
\* followed by the first word of a visible link the page can show.
C30_BaiduVisibleLinkRewritten ==
  \A self \in Parsers :
    (cls[self] = "BaiduParser" /\ Returned(self)) =>
      \A key \in Lists(self) : \A i \in DOMAIN search_results[self][key] :
        LET r == search_results[self][key][i]
        IN Truthy(r["visible_link"]) =>
             /\ r["link"] = r["visible_link"]
             /\ \E v \in FieldValues("BaiduParser", "visible_link") \ {None} :
                  r["visible_link"] = <<"http://">> \o FirstWord(strip(v))

====
